---- MODULE Spec2Model ----
(***************************************************************************)
(* Model of the FinTech monitoring pipeline: the analyzer service          *)
(* (services/analyzer/app.py), the alert service (services/alert/app.py)   *)
(* and, as the writer of market_data and news_articles, the scraper        *)
(* (fintech-k8s-system/app.py).                                            *)
(*                                                                         *)
(* Numbers.  The store keeps change_percent as DECIMAL(5,2) and scores and *)
(* confidences as DECIMAL(5,4); the model keeps them as integers in        *)
(* hundredths of a percent and in ten-thousandths.  Python's arithmetic on *)
(* them is modelled exactly, as fractions [num, den]; binary floating      *)
(* point rounding (0.4 * 0.75 evaluates to 0.30000000000000004) is outside *)
(* the model: the quotes and classifier results of the model are ones for  *)
(* which double arithmetic gives the same signals as exact arithmetic.     *)
(*                                                                         *)
(* Time.  The clock counts hours.  Python's datetime.now() reads the       *)
(* clock; PostgreSQL's NOW() reads the start time of the connection's open *)
(* transaction.                                                            *)
(***************************************************************************)
EXTENDS Integers, Sequences, FiniteSets, TLC

VARIABLES
    now,                \* wall clock, in hours
    ticks,              \* number of clock advances so far
    market_data,        \* table market_data: rows in insertion order
    news_articles,      \* table news_articles
    sentiment_analysis, \* table sentiment_analysis
    trading_signals,    \* table trading_signals
    alerts,             \* table alerts; a row carries whether its insert was committed
    anDb,               \* analyzer_service.db: [conn, txn]
    anPc,               \* analyzer: "new", "idle", "signals"
    anQueue,            \* generate_signals: symbols still to process
    signals,            \* generate_signals: the list it returns
    anLast,             \* what the last iteration of generate_signals computed
    anServed,           \* whether /analyze was requested in the current hour
    anResp,             \* the last response of /analyze
    anCalls,            \* analyze_batch: per article of the cycle, what the
                        \* classifier did and the result built from it
    alDb,               \* alert_service.db: [conn, txn]
    alPc,               \* alert service: position in run_alert_check
    all_alerts,         \* check_all_conditions / run_alert_check: the batch
    scanLog,            \* per scan of the current cycle: what its query did
    emails,             \* summary emails handed to the email channel this cycle
    smsLog,             \* SMS bodies handed to the SMS channel this cycle
    alResp,             \* the last response of /check-alerts
    channels,           \* configuration: which notification channels exist
    requests,           \* per request thread of the alert service's server:
                        \* its position in run_alert_check and its batch
    scrapes,            \* per thread of the scraper service: its position in
                        \* scrape_market_data and its time, in seconds
    scrapeRuns,         \* number of scrapes begun so far
    providerLog,        \* the quote requests the provider received, per scrape
    dbCall              \* the latest call of connect or execute_query made on
                        \* the alert service's DatabaseManager from outside a cycle

storeVars == <<market_data, news_articles, sentiment_analysis, trading_signals, alerts>>
clockVars == <<now, ticks>>
anVars    == <<anDb, anPc, anQueue, signals, anLast, anServed, anResp, anCalls>>
alVars    == <<alDb, alPc, all_alerts, scanLog, emails, smsLog, alResp, channels,
               requests>>
scVars    == <<scrapes, scrapeRuns, providerLog>>
vars      == <<now, ticks, market_data, news_articles, sentiment_analysis,
               trading_signals, alerts, anDb, anPc, anQueue, signals, anLast,
               anServed, anResp, anCalls,
               alDb, alPc, all_alerts, scanLog, emails, smsLog, alResp, channels,
               requests, scrapes, scrapeRuns, providerLog, dbCall>>

(***************************************************************************)
(* Bounds of the model.                                                    *)
(***************************************************************************)
MaxTicks    == 2    \* clock advances
MaxObs      == 3    \* market_data rows
MaxArticles == 2    \* news_articles rows
MaxRecords  == 3    \* sentiment_analysis rows written for the alert service
MaxSignals  == 2    \* trading_signals rows written for the alert service
MaxRequests == 2    \* requests a service's server handles at a time
MaxScrapes  == 3    \* scrapes begun: the initial one and the triggered ones

(***************************************************************************)
(* Program constants.                                                      *)
(***************************************************************************)
PRICE_CHANGE_THRESHOLD == 500       \* 5.0 percent, in hundredths
ALERT_PRICE_CHANGE_THRESHOLD == 500 \* the alert service's PRICE_CHANGE_THRESHOLD
SENTIMENT_THRESHOLD    == 0 - 3000  \* -0.3, in ten-thousandths
RETRIES                == 5         \* connect(retries=5)
LOOKBACK_HOURS         == 24        \* aggregate_sentiment_signals(lookback_hours=24)
NEWS_HOURS             == 24        \* analyze_recent_news(hours=24)
NEWS_LIMIT             == 20        \* LIMIT 20 of the unanalyzed-articles query
PRICE_LIMIT            == 20        \* LIMIT 20 of the price query
SENTIMENT_ALERT_HOURS  == 6         \* INTERVAL '6 hours'
SIGNAL_ALERT_HOURS     == 1         \* INTERVAL '1 hour'
MIN_ARTICLES           == 3         \* article_count >= 3
SMS_LIMIT              == 3         \* high_alerts[:3]
SMS_LENGTH             == 160       \* message[:160]
RATE_DELAY             == 12        \* scrape_market_data: time.sleep(12)
REQUEST_TIMEOUT        == 10        \* requests.get(..., timeout=10)

STOCK_SYMBOLS == <<"AAPL", "GOOGL", "MSFT">>
Symbols == {STOCK_SYMBOLS[i] : i \in 1..Len(STOCK_SYMBOLS)}

NoTxn == 0 - 1

(***************************************************************************)
(* Sequences and fractions.                                                *)
(***************************************************************************)
\* the rows of table t that satisfy Test(_), in table order
RECURSIVE SumSeq(_)
SumSeq(s) == IF s = <<>> THEN 0 ELSE Head(s) + SumSeq(Tail(s))

Abs(x) == IF x < 0 THEN 0 - x ELSE x
Min(a, b) == IF a <= b THEN a ELSE b

RECURSIVE Gcd(_, _)
Gcd(a, b) == IF b = 0 THEN a ELSE Gcd(b, a % b)

\* the fraction n/d (d > 0) in lowest terms, so that equal fractions are equal records
Frac(n, d) ==
    LET g == Gcd(Abs(n), d) IN [num |-> n \div g, den |-> d \div g]
FracAdd(a, b)  == Frac(a.num * b.den + b.num * a.den, a.den * b.den)
FracMul(a, b)  == Frac(a.num * b.num, a.den * b.den)
FracLess(a, b) == a.num * b.den < b.num * a.den
FracMin(a, b)  == IF FracLess(b, a) THEN b ELSE a
FracAbs(a)     == [num |-> Abs(a.num), den |-> a.den]
Zero == Frac(0, 1)
One  == Frac(1, 1)
\* n/d rounded to the nearest integer, halves away from zero (NUMERIC rounding)
RoundDiv(n, d) ==
    IF n >= 0 THEN (2 * n + d) \div (2 * d)
    ELSE 0 - ((2 * (0 - n) + d) \div (2 * d))

(***************************************************************************)
(* DatabaseManager (the same class in the analyzer and the alert service). *)
(* A manager is [conn, txn]: conn is "none" (self.conn is None), "open" or *)
(* "closed" (a connection object whose closed flag is set); txn is the     *)
(* hour the connection's open transaction began, NoTxn when none is open.  *)
(* psycopg2 opens a transaction at the first statement after a commit or   *)
(* rollback, and only commit() or rollback() ends it.                      *)
(***************************************************************************)
NewDb == [conn |-> "none", txn |-> NoTxn]

\* connect(): the attempt loop.  firstOk is the number of the first attempt
\* the server accepts, 0 when it accepts none.
RECURSIVE ConnectLoop(_, _, _, _)
ConnectLoop(db, attempt, firstOk, slept) ==
    IF attempt >= RETRIES
    THEN [db |-> db, ok |-> FALSE, attempts |-> attempt, sleeps |-> slept]
    ELSE IF firstOk = attempt + 1
    THEN [db |-> [conn |-> "open", txn |-> NoTxn], ok |-> TRUE,
          attempts |-> attempt + 1, sleeps |-> slept]
    ELSE IF attempt < RETRIES - 1
    THEN ConnectLoop(db, attempt + 1, firstOk, slept + 1)
    ELSE [db |-> db, ok |-> FALSE, attempts |-> attempt + 1, sleeps |-> slept]

\* connect() that also waits after its last failed attempt
connect_waiting(db, firstOk) ==
    [ConnectLoop(db, 0, firstOk, 0) EXCEPT
         !.sleeps = IF firstOk \in 1..RETRIES THEN @ ELSE @ + 1]

connect(db, firstOk) == ConnectLoop(db, 0, firstOk, 0)

\* execute_query(query, params, fetch) at hour t.  firstOk drives a reconnect,
\* stmt is what the server does with the statement: "ok", "error" (the
\* statement fails on a live connection) or "lost" (the connection breaks).
\* result: "rows" (fetchall), "true" (committed), "none" (rolled back, None
\* returned) or "raise" (the except block's rollback itself raises: self.conn
\* is None, or the connection is closed or broken).
\* sqlNow is what NOW() evaluates to inside the statement; undone tells that
\* the uncommitted work of the connection was discarded.
execute_query(db, firstOk, stmt, fetch, t) ==
    LET \* the statement on the connection db1 that the health check left
        cursor(db1) ==
            LET started == IF db1.txn = NoTxn THEN t ELSE db1.txn
            IN  IF db1.conn # "open"
                THEN [db |-> db1, result |-> "raise", sqlNow |-> NoTxn,
                      undone |-> FALSE, reconnected |-> FALSE]
                ELSE IF stmt = "ok" /\ fetch
                THEN [db |-> [db1 EXCEPT !.txn = started], result |-> "rows",
                      sqlNow |-> started, undone |-> FALSE,
                      reconnected |-> db.conn # "open"]
                ELSE IF stmt = "ok"
                THEN [db |-> [db1 EXCEPT !.txn = NoTxn], result |-> "true",
                      sqlNow |-> started, undone |-> FALSE,
                      reconnected |-> db.conn # "open"]
                ELSE IF stmt = "error"
                THEN [db |-> [db1 EXCEPT !.txn = NoTxn], result |-> "none",
                      sqlNow |-> started, undone |-> TRUE,
                      reconnected |-> db.conn # "open"]
                ELSE [db |-> [conn |-> "closed", txn |-> NoTxn], result |-> "raise",
                      sqlNow |-> started, undone |-> TRUE,
                      reconnected |-> db.conn # "open"]
    IN  cursor(IF db.conn # "open" THEN connect(db, firstOk).db ELSE db)

Outcomes == {"ok", "error", "lost"}
\* a reconnect is attempted only when the connection is not open
LinkChoices(db) == IF db.conn = "open" THEN {1} ELSE {0, 1, RETRIES}

(***************************************************************************)
(* The store's tables.  market_data and trading_signals are kept per       *)
(* symbol in insertion order; every writer stamps its rows with            *)
(* datetime.now(), so within a symbol insertion order is timestamp order   *)
(* and ORDER BY timestamp DESC is the reverse of insertion order.          *)
(***************************************************************************)
Reverse(s) == [i \in 1..Len(s) |-> s[Len(s) + 1 - i]]
Limit(s, n) == SubSeq(s, 1, Min(Len(s), n))
NoRows == [kind |-> "none", rows |-> <<>>]
Rows(r) == [kind |-> "rows", rows |-> r]
\* Python's "not data" for the value execute_query returned
Falsy(data) == data.kind = "none" \/ data.rows = <<>>

\* SELECT price, change_percent, volume, timestamp FROM market_data
\* WHERE symbol = %s ORDER BY timestamp DESC LIMIT 20
PriceQuery(symbol) == Limit(Reverse(market_data[symbol]), PRICE_LIMIT)

ArticleSymbol(id) == news_articles[id].symbol

\* SELECT AVG(sentiment_score), COUNT(*), AVG(confidence)
\* FROM sentiment_analysis sa JOIN news_articles na ON sa.article_id = na.id
\* WHERE na.symbol = %s AND sa.analyzed_at > %s
SentimentQuery(symbol, cutoff) ==
    LET hit == SelectSeq(sentiment_analysis,
                   LAMBDA r : ArticleSymbol(r.article_id) = symbol
                              /\ r.analyzed_at > cutoff)
        n == Len(hit)
    IN  <<[article_count |-> n,
           avg_sentiment |->
               IF n = 0 THEN Zero
               ELSE Frac(SumSeq([i \in 1..n |-> hit[i].sentiment_score]), n * 10000),
           avg_confidence |->
               IF n = 0 THEN Zero
               ELSE Frac(SumSeq([i \in 1..n |-> hit[i].confidence]), n * 10000)]>>

(***************************************************************************)
(* SignalAggregator                                                        *)
(***************************************************************************)
\* calculate_price_signals with the threshold test made inclusive
calculate_price_signals_inclusive(data) ==
    IF Falsy(data) \/ Len(data.rows) < 2
    THEN [signal |-> "HOLD", strength |-> Zero, reason |-> "Insufficient data"]
    ELSE LET price_change == data.rows[1].change_percent
         IN  IF Abs(price_change) >= PRICE_CHANGE_THRESHOLD
             THEN [signal |-> IF price_change > 0 THEN "BUY" ELSE "SELL",
                   strength |-> FracMin(Frac(Abs(price_change), 1000), One),
                   reason |-> IF price_change > 0 THEN "Strong upward movement"
                              ELSE "Strong downward movement",
                   price_change |-> price_change,
                   volume_change |-> Zero]
             ELSE [signal |-> "HOLD", strength |-> Frac(3, 10),
                   reason |-> "Price stable", price_change |-> price_change,
                   volume_change |-> Zero]

\* calculate_price_signals, given what its query returned
calculate_price_signals(data) ==
    IF Falsy(data) \/ Len(data.rows) < 2
    THEN [signal |-> "HOLD", strength |-> Zero, reason |-> "Insufficient data"]
    ELSE LET latest == data.rows[1]
             previous == data.rows[2]
             price_change == latest.change_percent
             volume_change ==
                 IF previous.volume > 0
                 THEN Frac((latest.volume - previous.volume) * 100, previous.volume)
                 ELSE Zero
         IN  IF Abs(price_change) > PRICE_CHANGE_THRESHOLD
             THEN [signal |-> IF price_change > 0 THEN "BUY" ELSE "SELL",
                   strength |-> FracMin(Frac(Abs(price_change), 1000), One),
                   reason |-> IF price_change > 0 THEN "Strong upward movement"
                              ELSE "Strong downward movement",
                   price_change |-> price_change,
                   volume_change |-> volume_change]
             ELSE [signal |-> "HOLD",
                   strength |-> Frac(3, 10),
                   reason |-> "Price stable",
                   price_change |-> price_change,
                   volume_change |-> volume_change]

\* aggregate_sentiment_signals with the bullish test made inclusive
aggregate_sentiment_signals_inclusive(result) ==
    IF Falsy(result) \/ result.rows[1].article_count = 0
    THEN [avg_sentiment |-> Zero, article_count |-> 0,
          signal |-> "NEUTRAL", confidence |-> Zero]
    ELSE LET data == result.rows[1]
         IN  [avg_sentiment |-> data.avg_sentiment,
              article_count |-> data.article_count,
              signal |-> IF ~FracLess(data.avg_sentiment, Frac(3, 10)) THEN "BULLISH"
                         ELSE IF FracLess(data.avg_sentiment, Frac(0 - 3, 10))
                         THEN "BEARISH"
                         ELSE "NEUTRAL",
              confidence |-> data.avg_confidence]

\* aggregate_sentiment_signals, given what its query returned
aggregate_sentiment_signals(result) ==
    IF Falsy(result) \/ result.rows[1].article_count = 0
    THEN [avg_sentiment |-> Zero, article_count |-> 0,
          signal |-> "NEUTRAL", confidence |-> Zero]
    ELSE LET data == result.rows[1]
             avg_sentiment == data.avg_sentiment
         IN  [avg_sentiment |-> avg_sentiment,
              article_count |-> data.article_count,
              signal |-> IF FracLess(Frac(3, 10), avg_sentiment) THEN "BULLISH"
                         ELSE IF FracLess(avg_sentiment, Frac(0 - 3, 10)) THEN "BEARISH"
                         ELSE "NEUTRAL",
              confidence |-> data.avg_confidence]

signal_map(sig) ==
    IF sig \in {"BUY", "BULLISH"} THEN 1
    ELSE IF sig \in {"SELL", "BEARISH"} THEN 0 - 1
    ELSE 0

\* the final signal with the STRONG_BUY test made inclusive
final_signal_inclusive(composite_score) ==
    IF ~FracLess(composite_score, Frac(3, 10)) THEN "STRONG_BUY"
    ELSE IF FracLess(Zero, composite_score) THEN "BUY"
    ELSE IF FracLess(composite_score, Frac(0 - 3, 10)) THEN "STRONG_SELL"
    ELSE IF FracLess(composite_score, Zero) THEN "SELL"
    ELSE "HOLD"

\* the final signal generate_composite_signal derives from the composite score
final_signal_of(composite_score) ==
    IF FracLess(Frac(3, 10), composite_score) THEN "STRONG_BUY"
    ELSE IF FracLess(Zero, composite_score) THEN "BUY"
    ELSE IF FracLess(composite_score, Frac(0 - 3, 10)) THEN "STRONG_SELL"
    ELSE IF FracLess(composite_score, Zero) THEN "SELL"
    ELSE "HOLD"

\* generate_composite_signal, given the two signals it computed, at hour t
generate_composite_signal(symbol, price_signal, sentiment_signal, t) ==
    LET price_weight == Frac(6, 10)
        sentiment_weight == Frac(4, 10)
        price_score ==
            FracMul(Frac(signal_map(price_signal.signal), 1), price_signal.strength)
        sentiment_score ==
            FracMul(Frac(signal_map(sentiment_signal.signal), 1),
                    sentiment_signal.confidence)
        composite_score == FracAdd(FracMul(price_score, price_weight),
                                   FracMul(sentiment_score, sentiment_weight))
    IN  [symbol |-> symbol,
         final_signal |-> final_signal_of(composite_score),
         composite_score |-> composite_score,
         price_signal |-> price_signal,
         sentiment_signal |-> sentiment_signal,
         timestamp |-> t]

(***************************************************************************)
(* GeminiAnalyzer.  A text is modelled by what _fallback_sentiment reads   *)
(* of it: how many of the positive and of the negative words it contains.  *)
(* The classifier is external: cls is what one call of it does: "none"    *)
(* (self.model is None), "fail" (generate_content raises) or "text", with  *)
(* the response text and the object its JSON document denotes.  A response *)
(* text is modelled by its parts in order: "fence_json" and "fence" (the   *)
(* markdown code fences with and without the word json), "json" (one JSON  *)
(* document), "prose" (any other text).                                    *)
(***************************************************************************)
\* the clean-up of result_text: a leading ```json, then a leading ```, then a
\* trailing ``` are cut
StripFences(response) ==
    LET unfenced(text) ==
            IF text # <<>> /\ text[Len(text)] = "fence"
            THEN SubSeq(text, 1, Len(text) - 1) ELSE text
        opened(text) ==
            unfenced(IF text # <<>> /\ Head(text) = "fence" THEN Tail(text) ELSE text)
    IN  opened(IF response # <<>> /\ Head(response) = "fence_json"
               THEN Tail(response) ELSE response)

\* json.loads(result_text.strip()) returns for exactly one JSON document and
\* raises for everything else
json_loads(text) == text = <<"json">>

\* _fallback_sentiment with the label tests made inclusive: >= 0.2, <= -0.2
_fallback_sentiment_inclusive(text) ==
    LET pos_count == text.pos
        neg_count == text.neg
        total == pos_count + neg_count
        score == IF total = 0 THEN Zero ELSE Frac(pos_count - neg_count, total)
    IN  [sentiment_score |-> score,
         sentiment_label |->
             IF total = 0 THEN "neutral"
             ELSE IF ~FracLess(score, Frac(2, 10)) THEN "positive"
             ELSE IF ~FracLess(Frac(0 - 2, 10), score) THEN "negative"
             ELSE "neutral",
         confidence |-> Frac(5, 10),
         key_points |-> "Fallback analysis used",
         market_impact |-> "neutral"]

_fallback_sentiment(text) ==
    LET pos_count == text.pos
        neg_count == text.neg
        total == pos_count + neg_count
        score == IF total = 0 THEN Zero ELSE Frac(pos_count - neg_count, total)
    IN  [sentiment_score |-> score,
         sentiment_label |->
             IF total = 0 THEN "neutral"
             ELSE IF FracLess(Frac(2, 10), score) THEN "positive"
             ELSE IF FracLess(score, Frac(0 - 2, 10)) THEN "negative"
             ELSE "neutral",
         confidence |-> Frac(5, 10),
         key_points |-> "Fallback analysis used",
         market_impact |-> "neutral"]

analyze_sentiment(text, cls) ==
    IF cls.kind = "none" THEN _fallback_sentiment(text)
    ELSE IF cls.kind = "fail" THEN _fallback_sentiment(text)
    ELSE IF json_loads(StripFences(cls.response)) THEN cls.result
    ELSE _fallback_sentiment(text)

\* analyze_batch: one result per article, in order; cls[i] is the classifier's
\* behaviour on article i
analyze_batch(articles, cls, t) ==
    [i \in 1..Len(articles) |->
        LET sentiment == analyze_sentiment(articles[i].text, cls[i])
        IN  [article_id |-> articles[i].id,
             symbol |-> articles[i].symbol,
             sentiment_score |-> sentiment.sentiment_score,
             sentiment_label |-> sentiment.sentiment_label,
             confidence |-> sentiment.confidence,
             key_points |-> sentiment.key_points,
             market_impact |-> sentiment.market_impact,
             analyzed_at |-> t]]

\* a Python float stored in a DECIMAL(5,4) column, in ten-thousandths
Decimal54(x) == RoundDiv(x.num * 10000, x.den)
\* DECIMAL(5,4) holds absolute values below 10; a larger one fails the statement
Fits54(x) == Abs(Decimal54(x)) <= 99999

(***************************************************************************)
(* AnalyzerService                                                         *)
(***************************************************************************)
\* the query without its test for a missing record (sa.id IS NULL)
RecentArticlesQuery(cutoff) ==
    Limit(Reverse(SelectSeq(news_articles, LAMBDA a : a.fetched_at > cutoff)),
          NEWS_LIMIT)

\* the unanalyzed-articles query of analyze_recent_news
UnanalyzedQuery(cutoff) ==
    Limit(Reverse(SelectSeq(news_articles,
              LAMBDA a : a.fetched_at > cutoff
                         /\ \A k \in 1..Len(sentiment_analysis) :
                                sentiment_analysis[k].article_id # a.id)),
          NEWS_LIMIT)

SentimentRow(result) ==
    [article_id |-> result.article_id,
     symbol |-> result.symbol,
     sentiment_score |-> Decimal54(result.sentiment_score),
     sentiment_label |-> result.sentiment_label,
     confidence |-> Decimal54(result.confidence),
     key_points |-> result.key_points,
     analyzed_at |-> result.analyzed_at]

\* the INSERT loop of analyze_recent_news from result i on: ins[i] is what the
\* server does with insert i
RECURSIVE SaveResults(_, _, _, _, _, _)
SaveResults(db, table, results, i, ins, t) ==
    IF i > Len(results) THEN [db |-> db, table |-> table, raised |-> FALSE]
    ELSE LET fits == Fits54(results[i].sentiment_score) /\ Fits54(results[i].confidence)
             stmt == IF ins[i] = "ok" /\ ~fits THEN "error" ELSE ins[i]
             q == execute_query(db, 0, stmt, FALSE, t)
         IN  IF q.result = "raise"
             THEN [db |-> q.db, table |-> table, raised |-> TRUE]
             ELSE SaveResults(q.db,
                      IF q.result = "true"
                      THEN Append(table, SentimentRow(results[i])) ELSE table,
                      results, i + 1, ins, t)

\* analyze_recent_news(hours) at hour t: [db, table, raised, results]
analyze_recent_news(db, link, sel, cls, ins, t) ==
    LET cutoff == t - NEWS_HOURS
        q == execute_query(db, link, sel, TRUE, t)
        articles == IF q.result = "rows" THEN Rows(UnanalyzedQuery(cutoff)) ELSE NoRows
    IN  IF q.result = "raise"
        THEN [db |-> q.db, table |-> sentiment_analysis, raised |-> TRUE,
              results |-> <<>>]
        ELSE IF Falsy(articles)
        THEN [db |-> q.db, table |-> sentiment_analysis, raised |-> FALSE,
              results |-> <<>>]
        ELSE LET results == analyze_batch(articles.rows, cls, t)
                 saved == SaveResults(q.db, sentiment_analysis, results, 1, ins, t)
             IN  [db |-> saved.db, table |-> saved.table, raised |-> saved.raised,
                  results |-> results]

\* the row generate_signals inserts into trading_signals
SignalRow(signal) ==
    [signal |-> signal.final_signal,
     composite_score |-> Decimal54(signal.composite_score),
     price_change |-> signal.price_signal.price_change,
     sentiment_score |-> Decimal54(signal.sentiment_signal.avg_sentiment),
     confidence |-> Decimal54(signal.sentiment_signal.confidence),
     reason |-> signal.price_signal.reason,
     timestamp |-> signal.timestamp]

NoValue == [signal |-> "none"]
NoLast == [symbol |-> "none", price_query |-> "none", price_signal |-> NoValue,
           sentiment_query |-> "none", sentiment_signal |-> NoValue,
           signal |-> NoValue, error |-> "none", insert |-> "none"]

\* One iteration of the loop of generate_signals, for symbol, at hour t:
\* [db, rows (the symbol's trading_signals rows), appended (what it appends to
\* signals), last (what it computed)].  link drives a reconnect; q1, q2, q3 are
\* what the server does with the price query, the sentiment query and the
\* INSERT.  An exception in the try block is caught and logged (error "db" for
\* one raised by execute_query, "KeyError" for the lookup of 'price_change' in
\* the dict calculate_price_signals returns for insufficient data).
generate_signals_step(db, symbol, link, q1, q2, q3, t) ==
    LET r1 == execute_query(db, link, q1, TRUE, t)
        data == IF r1.result = "rows" THEN Rows(PriceQuery(symbol)) ELSE NoRows
        price_signal == calculate_price_signals(data)
        cutoff == t - LOOKBACK_HOURS
        r2 == execute_query(r1.db, link, q2, TRUE, t)
        result == IF r2.result = "rows" THEN Rows(SentimentQuery(symbol, cutoff))
                  ELSE NoRows
        sentiment_signal == aggregate_sentiment_signals(result)
        signal == generate_composite_signal(symbol, price_signal, sentiment_signal, t)
        fits == Fits54(signal.composite_score)
                /\ Fits54(sentiment_signal.avg_sentiment)
                /\ Fits54(sentiment_signal.confidence)
        stmt == IF q3 = "ok" /\ ~fits THEN "error" ELSE q3
        r3 == execute_query(r2.db, link, stmt, FALSE, t)
        seen == [NoLast EXCEPT !.symbol = symbol, !.price_query = r1.result]
    IN  IF r1.result = "raise"
        THEN [db |-> r1.db, rows |-> trading_signals[symbol], appended |-> <<>>,
              last |-> [seen EXCEPT !.error = "db"]]
        ELSE IF r2.result = "raise"
        THEN [db |-> r2.db, rows |-> trading_signals[symbol], appended |-> <<>>,
              last |-> [seen EXCEPT !.price_signal = price_signal,
                                    !.sentiment_query = r2.result,
                                    !.error = "db"]]
        ELSE IF "price_change" \notin DOMAIN price_signal
        THEN [db |-> r2.db, rows |-> trading_signals[symbol], appended |-> <<>>,
              last |-> [seen EXCEPT !.price_signal = price_signal,
                                    !.sentiment_query = r2.result,
                                    !.sentiment_signal = sentiment_signal,
                                    !.signal = signal,
                                    !.error = "KeyError"]]
        ELSE [db |-> r3.db,
              rows |-> IF r3.result = "true"
                       THEN Append(trading_signals[symbol], SignalRow(signal))
                       ELSE trading_signals[symbol],
              appended |-> IF r3.result = "raise" THEN <<>> ELSE <<signal>>,
              last |-> [seen EXCEPT !.price_signal = price_signal,
                                    !.sentiment_query = r2.result,
                                    !.sentiment_signal = sentiment_signal,
                                    !.signal = signal,
                                    !.insert = r3.result,
                                    !.error = IF r3.result = "raise" THEN "db"
                                              ELSE "none"]]

(***************************************************************************)
(* AlertConditionChecker.  A message is modelled by the fields its f-string*)
(* is formatted from; a number formatted with :.2f by its sign, its whole  *)
(* part and its two decimals.                                              *)
(***************************************************************************)
\* f"{x:.2f}" of a value given in hundredths
Format2(x) == [negative |-> x < 0, whole |-> Abs(x) \div 100, cents |-> Abs(x) % 100]

RECURSIVE Digits(_)
\* the number of decimal digits of a natural number
Digits(n) == IF n < 10 THEN 1 ELSE 1 + Digits(n \div 10)

\* the number of characters of a message
MessageLength(m) ==
    LET number == (IF m.number.negative THEN 1 ELSE 0) + Digits(m.number.whole) + 3
    IN  CASE m.template = "price" ->
                 Len(m.symbol) + 1 + Len(m.word) + Len(" by ") + number + Len("%")
          [] m.template = "sentiment" ->
                 Len(m.symbol) + Len(" has negative sentiment: ") + number
                     + Len(" across ") + Digits(m.count) + Len(" articles")
          [] m.template = "signal" ->
                 Len(m.symbol) + Len(": ") + Len(m.word)
                     + Len(" signal detected (score: ") + number + Len(")")

\* SELECT DISTINCT ON (symbol) ... ORDER BY symbol, timestamp DESC: the latest
\* row of every symbol that has one, in the order of the symbols
LatestRows(table) ==
    LET having == SelectSeq(STOCK_SYMBOLS, LAMBDA s : table[s] # <<>>)
    IN  [i \in 1..Len(having) |->
            [symbol |-> having[i], row |-> table[having[i]][Len(table[having[i]])]]]

\* the query of check_price_alerts
PriceAlertQuery ==
    SelectSeq(LatestRows(market_data),
        LAMBDA r : Abs(r.row.change_percent) > ALERT_PRICE_CHANGE_THRESHOLD)

\* check_price_alerts with the alert direction taken from the sign reversed
check_price_alerts_reversed(results) ==
    IF Falsy(results) THEN <<>>
    ELSE [i \in 1..Len(results.rows) |->
             LET row == results.rows[i]
             IN  [type |-> "PRICE_ALERT", symbol |-> row.symbol, severity |-> "HIGH",
                  message |-> [template |-> "price", symbol |-> row.symbol,
                               word |-> IF row.row.change_percent < 0 THEN "increased"
                                        ELSE "decreased",
                               number |-> Format2(Abs(row.row.change_percent)),
                               count |-> 0],
                  details |-> 2,
                  timestamp |-> row.row.timestamp]]

\* check_price_alerts, given what its query returned
check_price_alerts(results) ==
    IF Falsy(results) THEN <<>>
    ELSE [i \in 1..Len(results.rows) |->
             LET row == results.rows[i]
                 direction == IF row.row.change_percent > 0 THEN "increased"
                              ELSE "decreased"
             IN  [type |-> "PRICE_ALERT", symbol |-> row.symbol, severity |-> "HIGH",
                  message |-> [template |-> "price", symbol |-> row.symbol,
                               word |-> direction,
                               number |-> Format2(Abs(row.row.change_percent)),
                               count |-> 0],
                  details |-> 2,
                  timestamp |-> row.row.timestamp]]

\* the query of check_sentiment_alerts; sqlNow is what NOW() evaluates to, the
\* start of the connection's transaction
SentimentAlertQuery(sqlNow) ==
    LET recent(s) == SelectSeq(sentiment_analysis,
                         LAMBDA r : r.symbol = s
                                    /\ r.analyzed_at > sqlNow - SENTIMENT_ALERT_HOURS)
        total(s) == SumSeq([i \in 1..Len(recent(s)) |-> recent(s)[i].sentiment_score])
        groups == SelectSeq(STOCK_SYMBOLS, LAMBDA s : recent(s) # <<>>)
        chosen == SelectSeq(groups,
                      LAMBDA s : /\ total(s) < SENTIMENT_THRESHOLD * Len(recent(s))
                                 /\ Len(recent(s)) >= MIN_ARTICLES)
    IN  [i \in 1..Len(chosen) |->
            [symbol |-> chosen[i], total |-> total(chosen[i]),
             article_count |-> Len(recent(chosen[i]))]]

\* check_sentiment_alerts, given what its query returned, at hour t
check_sentiment_alerts(results, t) ==
    IF Falsy(results) THEN <<>>
    ELSE [i \in 1..Len(results.rows) |->
             LET row == results.rows[i]
             IN  [type |-> "SENTIMENT_ALERT", symbol |-> row.symbol,
                  severity |-> "MEDIUM",
                  message |-> [template |-> "sentiment", symbol |-> row.symbol,
                               word |-> "",
                               number |-> Format2(RoundDiv(row.total * 100,
                                                           row.article_count * 10000)),
                               count |-> row.article_count],
                  details |-> 2,
                  timestamp |-> t]]

\* the query of check_trading_signals
SignalAlertQuery(sqlNow) ==
    SelectSeq(LatestRows(trading_signals),
        LAMBDA r : /\ r.row.signal \in {"STRONG_BUY", "STRONG_SELL"}
                   /\ r.row.timestamp > sqlNow - SIGNAL_ALERT_HOURS)

\* check_trading_signals, given what its query returned
check_trading_signals(results) ==
    IF Falsy(results) THEN <<>>
    ELSE [i \in 1..Len(results.rows) |->
             LET row == results.rows[i]
             IN  [type |-> "SIGNAL_ALERT", symbol |-> row.symbol, severity |-> "HIGH",
                  message |-> [template |-> "signal", symbol |-> row.symbol,
                               word |-> row.row.signal,
                               number |-> Format2(RoundDiv(row.row.composite_score, 100)),
                               count |-> 0],
                  details |-> 3,
                  timestamp |-> row.row.timestamp]]

\* the rows of the alerts table that survive a rollback or a lost connection
Settle(table, q) ==
    IF q.undone THEN SelectSeq(table, LAMBDA r : r.committed) ELSE table

\* check_all_conditions without the try/except around each scan: the first
\* scan that raises ends the function, and the scans after it are not run
check_all_conditions_unguarded(db, table, link, p, t) ==
    LET price_alerts(q1) ==
            check_price_alerts(IF q1.result = "rows" THEN Rows(PriceAlertQuery)
                               ELSE NoRows)
        sentiment_alerts(q2) ==
            check_sentiment_alerts(IF q2.result = "rows"
                                   THEN Rows(SentimentAlertQuery(q2.sqlNow))
                                   ELSE NoRows, t)
        signal_alerts(q3) ==
            check_trading_signals(IF q3.result = "rows"
                                  THEN Rows(SignalAlertQuery(q3.sqlNow))
                                  ELSE NoRows)
        scan(q, found) == [result |-> q.result, sqlNow |-> q.sqlNow, alerts |-> found]
        unrun == [result |-> "unrun", sqlNow |-> NoTxn, alerts |-> <<>>]
        collected(q1, q2, q3) ==
            [db |-> q3.db,
             table |-> Settle(Settle(Settle(table, q1), q2), q3),
             all_alerts |-> IF q3.result = "raise" THEN <<>>
                            ELSE price_alerts(q1) \o sentiment_alerts(q2)
                                     \o signal_alerts(q3),
             scans |-> [price |-> scan(q1, price_alerts(q1)),
                        sentiment |-> scan(q2, sentiment_alerts(q2)),
                        signal |-> scan(q3, signal_alerts(q3))]]
        third(q1, q2) ==
            IF q2.result = "raise"
            THEN [db |-> q2.db, table |-> Settle(Settle(table, q1), q2),
                  all_alerts |-> <<>>,
                  scans |-> [price |-> scan(q1, price_alerts(q1)),
                             sentiment |-> scan(q2, <<>>), signal |-> unrun]]
            ELSE collected(q1, q2, execute_query(q2.db, link, p.signal, TRUE, t))
        second(q1) ==
            IF q1.result = "raise"
            THEN [db |-> q1.db, table |-> Settle(table, q1), all_alerts |-> <<>>,
                  scans |-> [price |-> scan(q1, <<>>), sentiment |-> unrun,
                             signal |-> unrun]]
            ELSE third(q1, execute_query(q1.db, link, p.sentiment, TRUE, t))
    IN  second(execute_query(db, link, p.price, TRUE, t))

\* check_all_conditions at hour t: the three scans, each inside its own
\* try/except.  p tells what the server does with each scan's statement.
check_all_conditions(db, table, link, p, t) ==
    LET price_alerts(q1) ==
            check_price_alerts(IF q1.result = "rows" THEN Rows(PriceAlertQuery)
                               ELSE NoRows)
        sentiment_alerts(q2) ==
            check_sentiment_alerts(IF q2.result = "rows"
                                   THEN Rows(SentimentAlertQuery(q2.sqlNow))
                                   ELSE NoRows, t)
        signal_alerts(q3) ==
            check_trading_signals(IF q3.result = "rows"
                                  THEN Rows(SignalAlertQuery(q3.sqlNow))
                                  ELSE NoRows)
        scan(q, found) == [result |-> q.result, sqlNow |-> q.sqlNow, alerts |-> found]
        \* the results of the three scans, q1, q2 and q3 being what the three
        \* queries came to
        collected(q1, q2, q3) ==
            [db |-> q3.db,
             table |-> Settle(Settle(Settle(table, q1), q2), q3),
             all_alerts |-> price_alerts(q1) \o sentiment_alerts(q2)
                                \o signal_alerts(q3),
             scans |-> [price |-> scan(q1, price_alerts(q1)),
                        sentiment |-> scan(q2, sentiment_alerts(q2)),
                        signal |-> scan(q3, signal_alerts(q3))]]
        third(q1, q2) ==
            collected(q1, q2, execute_query(q2.db, link, p.signal, TRUE, t))
        second(q1) == third(q1, execute_query(q1.db, link, p.sentiment, TRUE, t))
    IN  second(execute_query(db, link, p.price, TRUE, t))

(***************************************************************************)
(* AlertService                                                            *)
(***************************************************************************)
\* str(details) is the repr of a Python dict, which the JSONB column accepts
\* only when the dict is empty: "{}"
JsonbAccepts(details) == details = 0

\* save_alert at hour t: stmt is what the server does with the INSERT apart
\* from parsing the details
save_alert(db, table, alert, link, stmt, t) ==
    LET effective == IF stmt = "ok" /\ ~JsonbAccepts(alert.details) THEN "error"
                     ELSE stmt
        \* q is what the INSERT came to
        saved(q) ==
            [db |-> q.db,
             raised |-> q.result = "raise",
             table |-> IF q.result = "rows"
                       THEN Append(Settle(table, q),
                                   [symbol |-> alert.symbol,
                                    alert_type |-> alert.type,
                                    severity |-> alert.severity,
                                    message |-> alert.message,
                                    timestamp |-> alert.timestamp,
                                    email_sent |-> FALSE, sms_sent |-> FALSE,
                                    committed |-> FALSE])
                       ELSE Settle(table, q)]
    IN  saved(execute_query(db, link, effective, TRUE, t))

RECURSIVE SaveAlerts(_, _, _, _, _, _, _)
\* the save loop of run_alert_check from alert i on; the connection breaks
\* during the INSERT of alert lostAt, of none when lostAt = 0
SaveAlerts(db, table, batch, i, link, lostAt, t) ==
    IF i > Len(batch) THEN [db |-> db, table |-> table, raised |-> FALSE]
    ELSE LET rest(r) ==
                 IF r.raised THEN r
                 ELSE SaveAlerts(r.db, r.table, batch, i + 1, link, lostAt, t)
         IN  rest(save_alert(db, table, batch[i], link,
                             IF i = lostAt THEN "lost" ELSE "ok", t))

\* _format_email_body with the MEDIUM section before the HIGH section
_format_email_body_medium_first(high_alerts, medium_alerts) ==
    LET entries(batch) ==
            [i \in 1..Len(batch) |->
                [line |-> "alert", message |-> batch[i].message,
                 time |-> batch[i].timestamp]]
        title(text) == <<[line |-> text, message |-> "", time |-> NoTxn]>>
    IN  title("FinTech Monitoring System - Alert Report")
            \o (IF medium_alerts # <<>>
                THEN title("MEDIUM PRIORITY ALERTS:") \o entries(medium_alerts)
                ELSE <<>>)
            \o (IF high_alerts # <<>>
                THEN title("HIGH PRIORITY ALERTS:") \o entries(high_alerts) ELSE <<>>)
            \o title("View full details at your dashboard")

\* _format_email_body: the lines of the body that carry content
_format_email_body(high_alerts, medium_alerts) ==
    LET entries(batch) ==
            [i \in 1..Len(batch) |->
                [line |-> "alert", message |-> batch[i].message,
                 time |-> batch[i].timestamp]]
        title(text) == <<[line |-> text, message |-> "", time |-> NoTxn]>>
    IN  title("FinTech Monitoring System - Alert Report")
            \o (IF high_alerts # <<>>
                THEN title("HIGH PRIORITY ALERTS:") \o entries(high_alerts) ELSE <<>>)
            \o (IF medium_alerts # <<>>
                THEN title("MEDIUM PRIORITY ALERTS:") \o entries(medium_alerts)
                ELSE <<>>)
            \o title("View full details at your dashboard")

\* EmailNotifier.send_email: what reaches the channel, and what it returns.
\* The send writes log lines only, and nothing in its try block can raise, so
\* it returns True.
send_email(high_count, body) ==
    [high_count |-> high_count, body |-> body, sent |-> TRUE]

\* SMSNotifier.send_sms: what reaches the channel, and what it returns
send_sms(message, chars, client, delivered) ==
    [message |-> message, chars |-> chars, sent |-> client /\ delivered]

\* send_notifications without the limit of 3 SMS
send_notifications_unlimited(batch, config, delivered) ==
    LET high_alerts == SelectSeq(batch, LAMBDA a : a.severity = "HIGH")
        medium_alerts == SelectSeq(batch, LAMBDA a : a.severity = "MEDIUM")
    IN  IF batch = <<>> THEN [emails |-> <<>>, sms |-> <<>>]
        ELSE [emails |->
                  IF config.email
                  THEN <<send_email(Len(high_alerts),
                                    _format_email_body(high_alerts, medium_alerts))>>
                  ELSE <<>>,
              sms |->
                  IF config.sms /\ high_alerts # <<>>
                  THEN [i \in 1..Len(high_alerts) |->
                           send_sms(high_alerts[i].message,
                                    Min(Len("ALERT: ")
                                            + MessageLength(high_alerts[i].message),
                                        SMS_LENGTH),
                                    config.twilio, delivered)]
                  ELSE <<>>]

\* send_notifications with an SMS loop that ends at the first send that fails
send_notifications_abort(batch, config, delivered) ==
    LET high_alerts == SelectSeq(batch, LAMBDA a : a.severity = "HIGH")
        medium_alerts == SelectSeq(batch, LAMBDA a : a.severity = "MEDIUM")
    IN  IF batch = <<>> THEN [emails |-> <<>>, sms |-> <<>>]
        ELSE [emails |->
                  IF config.email
                  THEN <<send_email(Len(high_alerts),
                                    _format_email_body(high_alerts, medium_alerts))>>
                  ELSE <<>>,
              sms |->
                  IF config.sms /\ high_alerts # <<>>
                  THEN LET first == Limit(high_alerts, SMS_LIMIT)
                           attempts ==
                               IF config.twilio /\ delivered THEN Len(first) ELSE 1
                       IN  [i \in 1..attempts |->
                               send_sms(first[i].message,
                                        Min(Len("ALERT: ")
                                                + MessageLength(first[i].message),
                                            SMS_LENGTH),
                                        config.twilio, delivered)]
                  ELSE <<>>]

\* send_notifications with an SMS loop over the last HIGH alerts of the batch
send_notifications_latest(batch, config, delivered) ==
    LET high_alerts == SelectSeq(batch, LAMBDA a : a.severity = "HIGH")
        medium_alerts == SelectSeq(batch, LAMBDA a : a.severity = "MEDIUM")
    IN  IF batch = <<>> THEN [emails |-> <<>>, sms |-> <<>>]
        ELSE [emails |->
                  IF config.email
                  THEN <<send_email(Len(high_alerts),
                                    _format_email_body(high_alerts, medium_alerts))>>
                  ELSE <<>>,
              sms |->
                  IF config.sms /\ high_alerts # <<>>
                  THEN LET first == Reverse(Limit(Reverse(high_alerts), SMS_LIMIT))
                       IN  [i \in 1..Len(first) |->
                               send_sms(first[i].message,
                                        Min(Len("ALERT: ")
                                                + MessageLength(first[i].message),
                                            SMS_LENGTH),
                                        config.twilio, delivered)]
                  ELSE <<>>]

\* send_notifications: the emails and the SMS handed to the channels
send_notifications(batch, config, delivered) ==
    LET high_alerts == SelectSeq(batch, LAMBDA a : a.severity = "HIGH")
        medium_alerts == SelectSeq(batch, LAMBDA a : a.severity = "MEDIUM")
    IN  IF batch = <<>> THEN [emails |-> <<>>, sms |-> <<>>]
        ELSE [emails |->
                  IF config.email
                  THEN <<send_email(Len(high_alerts),
                                    _format_email_body(high_alerts, medium_alerts))>>
                  ELSE <<>>,
              sms |->
                  IF config.sms /\ high_alerts # <<>>
                  THEN LET first == Limit(high_alerts, SMS_LIMIT)
                       IN  [i \in 1..Len(first) |->
                               send_sms(first[i].message,
                                        Min(Len("ALERT: ")
                                                + MessageLength(first[i].message),
                                            SMS_LENGTH),
                                        config.twilio, delivered)]
                  ELSE <<>>]

\* run_alert_check at hour t
run_alert_check(db, table, config, link, p, t) ==
    LET none == [emails |-> <<>>, sms |-> <<>>]
        \* the alerts are saved one by one, then the batch is notified
        handled(checked, saved) ==
            IF saved.raised
            THEN [db |-> saved.db, table |-> saved.table,
                  all_alerts |-> checked.all_alerts, scans |-> checked.scans,
                  raised |-> TRUE, notified |-> FALSE, sent |-> none]
            ELSE [db |-> saved.db, table |-> saved.table,
                  all_alerts |-> checked.all_alerts, scans |-> checked.scans,
                  raised |-> FALSE, notified |-> TRUE,
                  sent |-> send_notifications(checked.all_alerts, config,
                                              p.delivered)]
        cycle(checked) ==
            IF checked.all_alerts = <<>>
            THEN [db |-> checked.db, table |-> checked.table,
                  all_alerts |-> checked.all_alerts, scans |-> checked.scans,
                  raised |-> FALSE, notified |-> FALSE, sent |-> none]
            ELSE handled(checked,
                         SaveAlerts(checked.db, checked.table, checked.all_alerts,
                                    1, link, p.lostAt, t))
    IN  cycle(check_all_conditions(db, table, link, p, t))

(***************************************************************************)
(* Inputs of the model.                                                    *)
(***************************************************************************)
\* change_percent of a quote, in hundredths: below -10 percent, exactly minus
\* the threshold, above the threshold, exactly 10 percent
Quotes == {[change_percent |-> 0 - 1200, volume |-> 200],
           [change_percent |-> 0 - 500, volume |-> 0],
           [change_percent |-> 700, volume |-> 300],
           [change_percent |-> 1000, volume |-> 0]}
\* JSON objects the classifier answers with; the last one has a confidence
\* outside [0, 1], which analyze_sentiment does not check
ClassifierResults ==
    {[sentiment_score |-> Frac(9, 10), sentiment_label |-> "positive",
      confidence |-> Frac(3, 10), key_points |-> "classifier",
      market_impact |-> "bullish"],
     [sentiment_score |-> Frac(3, 10), sentiment_label |-> "neutral",
      confidence |-> Frac(5, 10), key_points |-> "classifier",
      market_impact |-> "neutral"],
     [sentiment_score |-> Frac(0 - 9, 10), sentiment_label |-> "negative",
      confidence |-> Frac(3, 10), key_points |-> "classifier",
      market_impact |-> "bearish"],
     [sentiment_score |-> Frac(9, 10), sentiment_label |-> "positive",
      confidence |-> Frac(3, 1), key_points |-> "classifier",
      market_impact |-> "bullish"]}
ClassifierOutcomes ==
    {[kind |-> "fail"]}
        \cup {[kind |-> "text", response |-> <<"json">>, result |-> r] :
                  r \in ClassifierResults}
\* the outcomes with a confidence inside [0, 1]
RangedOutcomes ==
    {c \in ClassifierOutcomes :
        c.kind = "text" => ~FracLess(One, c.result.confidence)}
\* the outcomes that make a record bullish, bearish or (the fallback) neutral
PolarOutcomes ==
    {c \in ClassifierOutcomes :
        c.kind = "text" => c.result.sentiment_label # "neutral"}
\* the analyzer's clock: spans of hours between the events of the environment
AnalyzerHours == <<1, 23>>
\* the alert service's clock
AlertHours == <<1, 6>>
\* scores of the records written for the alert service: -0.9 and -0.3
AlertScores == {Frac(0 - 9, 10), Frac(0 - 3, 10)}
\* latest price changes behind the signals written for the alert service:
\* they make a STRONG_BUY, a STRONG_SELL and a HOLD
SignalChanges == {1000, 0 - 1200, 0 - 500}
\* ALERT_EMAIL set, ALERT_PHONE set, Twilio credentials set
Channels == [email : BOOLEAN, sms : BOOLEAN, twilio : BOOLEAN]

NoChannels == [email |-> FALSE, sms |-> FALSE, twilio |-> FALSE]
NoScan == [result |-> "none", sqlNow |-> NoTxn, alerts |-> <<>>]
NoScans == [price |-> NoScan, sentiment |-> NoScan, signal |-> NoScan,
            raised |-> FALSE, notified |-> FALSE]

\* the threads of the server that app.run starts: one per request in progress
RequestThreads == 1..MaxRequests

\* scraper_service before __main__ runs its initial scrape
NoScrape == [pc |-> "idle", run |-> 0, i |-> 0, started |-> 0, t |-> 0,
             results |-> 0]

InitScraper ==
    /\ scrapes = [r \in RequestThreads |-> NoScrape]
    /\ scrapeRuns = 0
    /\ providerLog = [run \in 1..MaxScrapes |-> <<>>]

InitStore ==
    /\ InitScraper
    /\ now = 0
    /\ ticks = 0
    /\ market_data = [s \in Symbols |-> <<>>]
    /\ news_articles = <<>>
    /\ sentiment_analysis = <<>>
    /\ trading_signals = [s \in Symbols |-> <<>>]
    /\ alerts = <<>>

InitAnalyzer ==
    /\ anDb = NewDb
    /\ anPc = "new"
    /\ anQueue = <<>>
    /\ signals = <<>>
    /\ anLast = NoLast
    /\ anServed = FALSE
    /\ anResp = "none"
    /\ anCalls = <<>>

NoRequest == [pc |-> "idle", all_alerts |-> <<>>]

NoCall == [op |-> "none"]

InitAlert ==
    /\ dbCall = NoCall
    /\ alDb = NewDb
    /\ alPc = "new"
    /\ all_alerts = <<>>
    /\ scanLog = NoScans
    /\ emails = <<>>
    /\ smsLog = <<>>
    /\ alResp = "none"
    /\ requests = [r \in RequestThreads |-> NoRequest]

Init == InitStore /\ InitAnalyzer /\ InitAlert /\ channels = NoChannels

\* the same with any configuration of the notification channels
InitNotify == InitStore /\ InitAnalyzer /\ InitAlert /\ channels \in Channels

(***************************************************************************)
(* The environment: the clock and the scraper's committed inserts.         *)
(***************************************************************************)
\* /analyze is requested periodically, at most once per hour of the clock.  The
\* scraper writes between the requests the model follows, and while the request
\* of the current hour is still to come.
EnvironmentOn == anPc # "signals" /\ ~anServed /\ alPc # "checked"

\* the clock advances by the next of the given spans of hours, taken in turn
Tick(hours) ==
    /\ ticks < MaxTicks
    /\ anPc # "signals"
    /\ alPc # "checked"
    /\ now' = now + hours[(ticks % Len(hours)) + 1]
    /\ ticks' = ticks + 1
    /\ anServed' = FALSE
    /\ UNCHANGED <<storeVars, anDb, anPc, anQueue, signals, anLast, anResp, anCalls,
                   alVars, scVars, dbCall>>

\* scrape_market_data, one symbol: the quote arrives and its INSERT commits
ScrapeQuote(symbol, quote) ==
    /\ EnvironmentOn
    /\ SumSeq([i \in 1..Len(STOCK_SYMBOLS) |-> Len(market_data[STOCK_SYMBOLS[i]])]) < MaxObs
    /\ market_data' = [market_data EXCEPT ![symbol] =
           Append(@, [change_percent |-> quote.change_percent,
                      volume |-> quote.volume, timestamp |-> now])]
    /\ UNCHANGED <<clockVars, news_articles, sentiment_analysis, trading_signals,
                   alerts, anVars, alVars, scVars, dbCall>>

\* scrape_news, one article: its INSERT commits
ScrapeArticle(symbol, text) ==
    /\ EnvironmentOn
    /\ Len(news_articles) < MaxArticles
    /\ news_articles' = Append(news_articles,
           [id |-> Len(news_articles) + 1, symbol |-> symbol, text |-> text,
            fetched_at |-> now])
    /\ UNCHANGED <<clockVars, market_data, sentiment_analysis, trading_signals,
                   alerts, anVars, alVars, scVars, dbCall>>

\* the analyzer, seen from the alert service: an article of the symbol is
\* scraped and analyzed with the given score, and both INSERTs commit
AnalyzeArticle(symbol, score) ==
    /\ EnvironmentOn
    /\ Len(sentiment_analysis) < MaxRecords
    /\ LET id == Len(news_articles) + 1
       IN  /\ news_articles' = Append(news_articles,
                   [id |-> id, symbol |-> symbol, text |-> [pos |-> 0, neg |-> 0],
                    fetched_at |-> now])
           /\ sentiment_analysis' = Append(sentiment_analysis,
                   SentimentRow([article_id |-> id, symbol |-> symbol,
                                 sentiment_score |-> score,
                                 sentiment_label |-> "negative",
                                 confidence |-> Frac(9, 10),
                                 key_points |-> "classifier",
                                 analyzed_at |-> now]))
    /\ UNCHANGED <<clockVars, market_data, trading_signals, alerts, anVars, alVars, scVars, dbCall>>

\* the signal generate_signals computes for a symbol whose latest price change
\* is the given one and which has no recent sentiment record
SignalFor(symbol, change) ==
    LET quote == [change_percent |-> change, volume |-> 0]
    IN  generate_composite_signal(symbol,
            calculate_price_signals(Rows(<<quote, quote>>)),
            aggregate_sentiment_signals(NoRows), now)

\* the analyzer, seen from the alert service: the INSERT of generate_signals
\* for the symbol commits
PublishSignal(symbol, change) ==
    /\ EnvironmentOn
    /\ SumSeq([i \in 1..Len(STOCK_SYMBOLS) |-> Len(trading_signals[STOCK_SYMBOLS[i]])])
           < MaxSignals
    /\ trading_signals' = [trading_signals EXCEPT ![symbol] =
           Append(@, SignalRow(SignalFor(symbol, change)))]
    /\ UNCHANGED <<clockVars, market_data, news_articles, sentiment_analysis, alerts,
                   anVars, alVars, scVars, dbCall>>

(***************************************************************************)
(* The analyzer service's steps.                                           *)
(***************************************************************************)
\* __main__: initialize_database (connect, CREATE TABLE IF NOT EXISTS).  When
\* the server cannot be reached execute_query raises and the process ends
\* before it serves; it is then started again.
AnalyzerStart(link, stmt) ==
    /\ anPc = "new"
    /\ LET c == connect(anDb, link)
           q == execute_query(c.db, link, stmt, FALSE, now)
       IN  /\ anDb' = IF q.result = "raise" THEN NewDb ELSE q.db
           /\ anPc' = IF q.result = "raise" THEN "new" ELSE "idle"
    /\ UNCHANGED <<clockVars, storeVars, anQueue, signals, anLast, anServed, anResp,
                   anCalls, alVars, scVars, dbCall>>

\* POST /analyze, up to the call of generate_signals: analyze_recent_news
TriggerAnalysis(link, sel, cls, ins) ==
    /\ anPc = "idle"
    /\ ~anServed
    /\ LET r == analyze_recent_news(anDb, link, sel, cls, ins, now)
       IN  /\ anDb' = r.db
           /\ sentiment_analysis' = r.table
           /\ anPc' = IF r.raised THEN "idle" ELSE "signals"
           /\ anQueue' = IF r.raised THEN <<>> ELSE STOCK_SYMBOLS
           /\ anResp' = IF r.raised THEN [status |-> "error"]
                        ELSE [status |-> "pending", sentiment_analyses |-> Len(r.results)]
           /\ anCalls' = [i \in 1..Len(r.results) |->
                              [cls |-> cls[i], result |-> r.results[i]]]
    /\ anServed' = TRUE
    /\ signals' = <<>>
    /\ anLast' = NoLast
    /\ UNCHANGED <<clockVars, market_data, news_articles, trading_signals, alerts,
                   alVars, scVars, dbCall>>

\* generate_signals: one iteration of its loop
GenerateStep(link, q1, q2, q3) ==
    /\ anPc = "signals"
    /\ anQueue # <<>>
    /\ LET symbol == Head(anQueue)
           r == generate_signals_step(anDb, symbol, link, q1, q2, q3, now)
       IN  /\ anDb' = r.db
           /\ trading_signals' = [trading_signals EXCEPT ![symbol] = r.rows]
           /\ signals' = signals \o r.appended
           /\ anLast' = r.last
    /\ anQueue' = Tail(anQueue)
    /\ UNCHANGED <<clockVars, market_data, news_articles, sentiment_analysis, alerts,
                   anPc, anServed, anResp, anCalls, alVars, scVars, dbCall>>

\* generate_signals returns and /analyze answers
AnalysisDone ==
    /\ anPc = "signals"
    /\ anQueue = <<>>
    /\ anPc' = "idle"
    /\ anLast' = NoLast
    /\ anResp' = [status |-> "success",
                  sentiment_analyses |-> anResp.sentiment_analyses,
                  trading_signals |-> Len(signals)]
    /\ anCalls' = <<>>
    /\ UNCHANGED <<clockVars, storeVars, anDb, anQueue, signals, anServed, alVars, scVars, dbCall>>

\* the articles the unanalyzed-articles query returns when it succeeds now
Pending == UnanalyzedQuery(now - NEWS_HOURS)

PriceEnvironment ==
    \E s \in Symbols, quote \in Quotes : ScrapeQuote(s, quote)

SentimentEnvironment ==
    \/ Tick(AnalyzerHours)
    \/ \E s \in Symbols : ScrapeArticle(s, [pos |-> 1, neg |-> 2])

\* the provider has quotes and news for the first symbol only
FusionEnvironment ==
    \/ \E quote \in Quotes : ScrapeQuote(STOCK_SYMBOLS[1], quote)
    \/ ScrapeArticle(STOCK_SYMBOLS[1], [pos |-> 0, neg |-> 0])

\* what the server does with the three statements of one iteration: at most one
\* of them goes wrong
FaultPatterns ==
    {p \in [1..3 -> Outcomes] : Cardinality({i \in 1..3 : p[i] # "ok"}) <= 1}
AllOk == [i \in 1..3 |-> "ok"]

\* the analyzer's steps; the server misbehaves only when faulty, and the
\* classifier behaves as one of outcomes
Analyzer(faulty, outcomes) ==
    LET links == IF faulty THEN LinkChoices(anDb) ELSE {1}
        stmts == IF faulty THEN Outcomes ELSE {"ok"}
        patterns == IF faulty THEN FaultPatterns ELSE {AllOk}
    IN  \/ \E link \in links, stmt \in stmts : AnalyzerStart(link, stmt)
        \/ \E link \in links, sel \in stmts :
               \E cls \in [1..Len(Pending) -> outcomes],
                  ins \in [1..Len(Pending) -> stmts] :
                   TriggerAnalysis(link, sel, cls, ins)
        \/ \E link \in links, p \in patterns :
               GenerateStep(link, p[1], p[2], p[3])
        \/ AnalysisDone

(***************************************************************************)
(* The alert service's steps.                                              *)
(***************************************************************************)
\* __main__: initialize_database (connect, CREATE TABLE IF NOT EXISTS)
AlertStart(link, stmt) ==
    /\ alPc = "new"
    /\ \E q \in {execute_query(connect(alDb, link).db, link, stmt, FALSE, now)} :
           /\ alDb' = IF q.result = "raise" THEN NewDb ELSE q.db
           /\ alPc' = IF q.result = "raise" THEN "new" ELSE "idle"
    /\ UNCHANGED <<clockVars, storeVars, anVars, all_alerts, scanLog, emails, smsLog,
                   alResp, channels, requests, scVars, dbCall>>

\* POST /check-alerts: run_alert_check, up to the response
TriggerAlertCheck(link, p) ==
    /\ alPc = "idle"
    /\ \E r \in {run_alert_check(alDb, alerts, channels, link, p, now)} :
           /\ alDb' = r.db
           /\ alerts' = r.table
           /\ all_alerts' = r.all_alerts
           /\ scanLog' = [price |-> r.scans.price, sentiment |-> r.scans.sentiment,
                          signal |-> r.scans.signal, raised |-> r.raised,
                          notified |-> r.notified]
           /\ emails' = r.sent.emails
           /\ smsLog' = r.sent.sms
           /\ alResp' = IF r.raised THEN [status |-> "error"]
                        ELSE [status |-> "success", alerts_found |-> Len(r.all_alerts)]
    /\ alPc' = "checked"
    /\ UNCHANGED <<clockVars, market_data, news_articles, sentiment_analysis,
                   trading_signals, anVars, channels, requests, scVars, dbCall>>

\* the response is returned and the locals of the request are gone
AlertResponded ==
    /\ alPc = "checked"
    /\ alPc' = "idle"
    /\ all_alerts' = <<>>
    /\ scanLog' = NoScans
    /\ emails' = <<>>
    /\ smsLog' = <<>>
    /\ UNCHANGED <<clockVars, storeVars, anVars, alDb, alResp, channels, requests, scVars, dbCall>>

\* what goes wrong in one cycle, at most one thing: the statement of one of
\* the three scans, the connection during one of the first two INSERTs, or
\* the SMS provider, which then refuses the messages
CyclePatterns ==
    {p \in [price : Outcomes, sentiment : Outcomes, signal : Outcomes,
            lostAt : 0..2, delivered : BOOLEAN] :
        Cardinality({f \in {"price", "sentiment", "signal"} : p[f] # "ok"})
            + (IF p.lostAt > 0 THEN 1 ELSE 0)
            + (IF p.delivered THEN 0 ELSE 1) <= 1}
\* the patterns with three sound scans
SoundScans ==
    {p \in CyclePatterns : p.price = "ok" /\ p.sentiment = "ok" /\ p.signal = "ok"}
CycleOk == {p \in SoundScans : p.lostAt = 0 /\ p.delivered}

\* the patterns in which the connection breaks, and is made anew afterwards
Lossy(p) ==
    p.price = "lost" \/ p.sentiment = "lost" \/ p.signal = "lost" \/ p.lostAt > 0

\* the alert service's steps; the server misbehaves only when faulty, and a
\* cycle goes as one of patterns
Alerting(faulty, patterns) ==
    LET stmts == IF faulty THEN Outcomes ELSE {"ok"}
    IN  \/ \E link \in (IF faulty THEN LinkChoices(alDb) ELSE {1}), stmt \in stmts :
               AlertStart(link, stmt)
        \/ \E p \in patterns :
               \E link \in (IF Lossy(p) THEN {0, 1} ELSE LinkChoices(alDb)) :
                   TriggerAlertCheck(link, p)
        \/ AlertResponded

\* the price side: quotes for every symbol, a server that may fail
Next == PriceEnvironment \/ Analyzer(TRUE, ClassifierOutcomes)

Spec == Init /\ [][Next]_vars

\* the sentiment side: articles for every symbol, over the hours
NextSentiment == SentimentEnvironment \/ Analyzer(FALSE, RangedOutcomes)

SpecSentiment == Init /\ [][NextSentiment]_vars

\* both sides, for one symbol
NextFusion == FusionEnvironment \/ Analyzer(FALSE, PolarOutcomes)

SpecFusion == Init /\ [][NextFusion]_vars

\* the price scan: quotes for every symbol, a server that may fail
NextPriceAlert == PriceEnvironment \/ Alerting(TRUE, CyclePatterns)

SpecPriceAlert == Init /\ [][NextPriceAlert]_vars

\* the sentiment scan: records for every symbol, over the hours
NextSentimentAlert ==
    \/ Tick(AlertHours)
    \/ \E s \in Symbols, score \in AlertScores : AnalyzeArticle(s, score)
    \/ Alerting(FALSE, CycleOk)

SpecSentimentAlert == Init /\ [][NextSentimentAlert]_vars

\* the signal scan: signals for every symbol, over the hours
NextSignalAlert ==
    \/ Tick(AlertHours)
    \/ \E s \in Symbols, change \in SignalChanges : PublishSignal(s, change)
    \/ Alerting(FALSE, CycleOk)

SpecSignalAlert == Init /\ [][NextSignalAlert]_vars

\* notification: every channel configuration, rows that make alerts of every
\* kind, a server that may fail
NextNotify ==
    \/ \E s \in Symbols : ScrapeQuote(s, [change_percent |-> 700, volume |-> 300])
    \/ \E s \in Symbols : PublishSignal(s, 1000)
    \/ AnalyzeArticle(STOCK_SYMBOLS[1], Frac(0 - 9, 10))
    \/ Alerting(TRUE, SoundScans)

SpecNotify == InitNotify /\ [][NextNotify]_vars

(***************************************************************************)
(* Properties of the analyzer.                                             *)
(***************************************************************************)
\* every composite signal at hand: the one of the current iteration and the
\* ones generate_signals has collected
Composites ==
    {signals[i] : i \in 1..Len(signals)}
        \cup (IF anLast.signal = NoValue THEN {} ELSE {anLast.signal})

Polarity(sig) ==
    CASE sig \in {"BUY", "BULLISH"} -> 1
      [] sig \in {"SELL", "BEARISH"} -> 0 - 1
      [] sig \in {"HOLD", "NEUTRAL"} -> 0

\* 0.6 * polarity(price) * strength + 0.4 * polarity(sentiment) * confidence,
\* as a fraction in lowest terms
WeightedSum(sig) ==
    LET s == sig.price_signal.strength
        c == sig.sentiment_signal.confidence
    IN  Frac(6 * Polarity(sig.price_signal.signal) * s.num * 10 * c.den
                 + 4 * Polarity(sig.sentiment_signal.signal) * c.num * 10 * s.den,
             100 * s.den * c.den)

Bucket(c) ==
    IF 10 * c.num > 3 * c.den THEN "STRONG_BUY"
    ELSE IF c.num > 0 THEN "BUY"
    ELSE IF c.num = 0 THEN "HOLD"
    ELSE IF 10 * c.num >= 0 - 3 * c.den THEN "SELL"
    ELSE "STRONG_SELL"

C2_CompositeInRange ==
    /\ \A sig \in Composites :
           /\ ~FracLess(One, sig.composite_score)
           /\ ~FracLess(sig.composite_score, Frac(0 - 1, 1))
    /\ \A s \in Symbols : \A i \in 1..Len(trading_signals[s]) :
           Abs(trading_signals[s][i].composite_score) <= 10000

\* the rows of a symbol's price history, newest first
Newest(symbol) == Reverse(market_data[symbol])

\* C3: when calculate_price_signals ran for a symbol with at least 2
\* observations, its result follows from the latest observation's changePercent
\* D alone: |D| > threshold gives BUY for D > 0 and SELL for D < 0 with strength
\* min(|D|/10, 1); |D| <= threshold gives HOLD with strength 0.3.
C3_PriceSignalFromLatest ==
    (anLast.price_query = "rows" /\ Len(market_data[anLast.symbol]) >= 2) =>
        LET D == Newest(anLast.symbol)[1].change_percent
            r == anLast.price_signal
        IN  IF Abs(D) > PRICE_CHANGE_THRESHOLD
            THEN /\ r.signal = (IF D > 0 THEN "BUY" ELSE "SELL")
                 /\ r.strength = (IF Abs(D) >= 1000 THEN One ELSE Frac(Abs(D), 1000))
            ELSE /\ r.signal = "HOLD"
                 /\ r.strength = Frac(3, 10)

\* C3 witness: the latest observation is a fall by more than 10 percent, the
\* one before it a rise above the threshold, and the signal is SELL, strength 1
C3_Witness ==
    /\ anLast.price_query = "rows"
    /\ Len(market_data[anLast.symbol]) >= 2
    /\ Newest(anLast.symbol)[1].change_percent < 0 - 1000
    /\ Newest(anLast.symbol)[2].change_percent > PRICE_CHANGE_THRESHOLD
    /\ anLast.price_signal.signal = "SELL"
    /\ anLast.price_signal.strength = One

\* C4: when calculate_price_signals was called for a symbol with fewer than 2
\* observations, or its query failed, it returned HOLD with strength 0 and
\* raised nothing.
C4_InsufficientDataHolds ==
    (anLast.symbol # "none"
     /\ (Len(market_data[anLast.symbol]) < 2 \/ anLast.price_query # "rows")) =>
        /\ anLast.price_signal # NoValue
        /\ anLast.price_signal.signal = "HOLD"
        /\ anLast.price_signal.strength = Zero

\* the sentiment_analysis rows of a symbol analyzed within the lookback window
InWindow(symbol, hours) ==
    {k \in 1..Len(sentiment_analysis) :
        /\ sentiment_analysis[k].symbol = symbol
        /\ sentiment_analysis[k].analyzed_at > now - hours}

RECURSIVE SumOver(_, _, _)
\* the sum of field f of the rows of table t with the indices in ks
SumOver(t, ks, f) ==
    IF ks = {} THEN 0
    ELSE LET k == CHOOSE x \in ks : TRUE
         IN  t[k][f] + SumOver(t, ks \ {k}, f)

\* C5: when aggregate_sentiment_signals ran for a symbol, with M the symbol's
\* records inside the 24 hour window: M empty gives count 0, NEUTRAL and
\* confidence 0; otherwise count = |M|, BULLISH for mean score > 0.3, BEARISH
\* for mean score < -0.3, NEUTRAL otherwise, confidence = mean confidence.
C5_SentimentAggregate ==
    anLast.sentiment_query = "rows" =>
        LET M == InWindow(anLast.symbol, LOOKBACK_HOURS)
            n == Cardinality(M)
            total == SumOver(sentiment_analysis, M, "sentiment_score")
            conf == SumOver(sentiment_analysis, M, "confidence")
            r == anLast.sentiment_signal
        IN  IF n = 0
            THEN r.article_count = 0 /\ r.signal = "NEUTRAL" /\ r.confidence = Zero
            ELSE /\ r.article_count = n
                 /\ r.signal = (IF total > 3000 * n THEN "BULLISH"
                                ELSE IF total < (0 - 3000) * n THEN "BEARISH"
                                ELSE "NEUTRAL")
                 /\ r.confidence = Frac(conf, 10000 * n)

\* C5 witness: two records of the symbol, one analyzed 24 hours ago and so
\* outside the window, one inside with a score of exactly 0.3: count 1, NEUTRAL
C5_Witness ==
    /\ anLast.sentiment_query = "rows"
    /\ anLast.sentiment_signal.article_count = 1
    /\ anLast.sentiment_signal.signal = "NEUTRAL"
    /\ anLast.sentiment_signal.avg_sentiment = Frac(3, 10)
    /\ \E k \in 1..Len(sentiment_analysis) :
           /\ sentiment_analysis[k].symbol = anLast.symbol
           /\ sentiment_analysis[k].analyzed_at = now - LOOKBACK_HOURS

(***************************************************************************)
(* Properties of the alert service.  They are stated of a cycle that has   *)
(* just run: the store is then what its scans read.                        *)
(***************************************************************************)
\* the alerts of a batch that are about a symbol
About(batch, s) == SelectSeq(batch, LAMBDA a : a.symbol = s)

\* C6: when the price scan ran, it emitted for every symbol exactly one HIGH
\* PRICE_ALERT if the symbol's latest observation has |changePercent| above the
\* threshold and none otherwise, whatever the older observations are; the
\* message says "increased" for a positive and "decreased" for a negative
\* change; a change exactly at the threshold emits nothing.
C6_PriceScan ==
    (alPc = "checked" /\ scanLog.price.result = "rows") =>
        /\ SelectSeq(all_alerts, LAMBDA a : a.type = "PRICE_ALERT")
               = scanLog.price.alerts
        /\ \A s \in Symbols :
               LET found == About(scanLog.price.alerts, s)
                   rows == market_data[s]
                   D == rows[Len(rows)].change_percent
               IN  IF rows # <<>> /\ Abs(D) > 500
                   THEN /\ Len(found) = 1
                        /\ found[1].type = "PRICE_ALERT"
                        /\ found[1].severity = "HIGH"
                        /\ found[1].message.word =
                               (IF D > 0 THEN "increased" ELSE "decreased")
                   ELSE found = <<>>

\* C6 witness: one symbol's latest change is exactly minus the threshold after
\* an older rise by 10 percent, the other's is a fall by 12 percent, and the
\* scan emitted one alert, "decreased", for the other
C6_Witness ==
    /\ alPc = "checked"
    /\ scanLog.price.result = "rows"
    /\ Len(scanLog.price.alerts) = 1
    /\ scanLog.price.alerts[1].message.word = "decreased"
    /\ \E s \in Symbols :
           /\ Len(market_data[s]) = 2
           /\ market_data[s][1].change_percent = 1000
           /\ market_data[s][2].change_percent = 0 - 500

\* C7: when the sentiment scan ran, it emitted a MEDIUM SENTIMENT_ALERT for a
\* symbol if and only if the symbol has at least 3 records analyzed within
\* the 6 hours before the evaluation whose mean score is below the threshold.
C7_SentimentScan ==
    (alPc = "checked" /\ scanLog.sentiment.result = "rows") =>
        \A s \in Symbols :
            LET M == InWindow(s, 6)
                n == Cardinality(M)
                total == SumOver(sentiment_analysis, M, "sentiment_score")
                found == About(scanLog.sentiment.alerts, s)
            IN  IF n >= 3 /\ total < (0 - 3000) * n
                THEN /\ Len(found) = 1
                     /\ found[1].type = "SENTIMENT_ALERT"
                     /\ found[1].severity = "MEDIUM"
                ELSE found = <<>>

\* C8: when the signal scan ran, it emitted a HIGH SIGNAL_ALERT for a symbol
\* if and only if the symbol's latest trading signal is STRONG_BUY or
\* STRONG_SELL and was written within the hour before the evaluation; a
\* superseded STRONG_BUY or STRONG_SELL row emits nothing.
C8_SignalScan ==
    (alPc = "checked" /\ scanLog.signal.result = "rows") =>
        \A s \in Symbols :
            LET rows == trading_signals[s]
                latest == rows[Len(rows)]
                found == About(scanLog.signal.alerts, s)
            IN  IF /\ rows # <<>>
                   /\ latest.signal \in {"STRONG_BUY", "STRONG_SELL"}
                   /\ latest.timestamp > now - 1
                THEN /\ Len(found) = 1
                     /\ found[1].type = "SIGNAL_ALERT"
                     /\ found[1].severity = "HIGH"
                ELSE found = <<>>

\* the alerts of the cycle's batch with the given severity, in batch order
OfSeverity(severity) == SelectSeq(all_alerts, LAMBDA a : a.severity = severity)

\* C9: after a send_notifications call with an SMS channel configured, the
\* number of SMS attempts is min(3, number of HIGH alerts), the attempts are
\* for the first HIGH alerts in batch order, none is for a MEDIUM alert, and
\* every body is at most 160 characters long.
C9_SmsCap ==
    (alPc = "checked" /\ scanLog.notified /\ channels.sms) =>
        LET high == OfSeverity("HIGH")
            medium == OfSeverity("MEDIUM")
        IN  /\ Len(smsLog) = Min(3, Len(high))
            /\ \A i \in 1..Len(smsLog) :
                   /\ smsLog[i].message = high[i].message
                   /\ smsLog[i].chars <= 160
                   /\ \A k \in 1..Len(medium) : smsLog[i].message # medium[k].message

\* C9 witness: a batch of 4 HIGH alerts and a MEDIUM one gave 3 SMS attempts
C9_Witness ==
    /\ alPc = "checked"
    /\ scanLog.notified
    /\ channels.sms
    /\ Len(OfSeverity("HIGH")) = 4
    /\ Len(OfSeverity("MEDIUM")) = 1
    /\ Len(smsLog) = 3

\* the alert lines of an email body: message and timestamp
Listed(body) ==
    LET lines == SelectSeq(body, LAMBDA l : l.line = "alert")
    IN  [i \in 1..Len(lines) |-> <<lines[i].message, lines[i].time>>]

\* the alerts of the cycle as a summary lists them: HIGH, then MEDIUM
Expected ==
    LET ordered == OfSeverity("HIGH") \o OfSeverity("MEDIUM")
    IN  [i \in 1..Len(ordered) |-> <<ordered[i].message, ordered[i].timestamp>>]

RowOf(alert) ==
    [symbol |-> alert.symbol, alert_type |-> alert.type, severity |-> alert.severity,
     message |-> alert.message, timestamp |-> alert.timestamp]

\* the rows of an alerts table, without the delivery flags
Stored(table) ==
    [i \in 1..Len(table) |->
        [symbol |-> table[i].symbol, alert_type |-> table[i].alert_type,
         severity |-> table[i].severity, message |-> table[i].message,
         timestamp |-> table[i].timestamp]]

\* C11: a cycle that went on to notify has persisted every alert of its batch
\* as a row of its own, without deduplication: the cycle leaves the table with
\* exactly one more row per alert, in batch order, after the rows it found, so
\* that k cycles over an unchanged store that triggers n alerts store k*n rows.
C11_EveryAlertStored ==
    [][(alPc = "idle" /\ alPc' = "checked" /\ scanLog'.notified) =>
           Stored(alerts') = Stored(alerts)
               \o [i \in 1..Len(all_alerts') |-> RowOf(all_alerts'[i])]]_vars

C13_OneRowPerSymbol ==
    [][(anPc = "signals" /\ anQueue # <<>> /\ anQueue' = Tail(anQueue)) =>
           LET symbol == Head(anQueue)
               before == trading_signals[symbol]
               after == trading_signals'[symbol]
           IN  /\ Len(after) = Len(before) + 1
               /\ SubSeq(after, 1, Len(before)) = before
               /\ after[Len(after)].symbol = symbol
               /\ \A s \in Symbols \ {symbol} :
                      trading_signals'[s] = trading_signals[s]]_vars

(***************************************************************************)
(* The sentiment source on its own: texts with every mix of polarity       *)
(* words, a classifier that is missing, raises or answers.                 *)
(***************************************************************************)
\* texts by the number of positive and of negative words found in them: no
\* polarity word; scores 0.2 and -0.2, the bounds of the labels; 1; -1
Texts == {[pos |-> 0, neg |-> 0], [pos |-> 3, neg |-> 2], [pos |-> 2, neg |-> 3],
          [pos |-> 9, neg |-> 0], [pos |-> 0, neg |-> 8]}
\* response texts: a JSON document, bare, in a json code fence and in a plain
\* code fence; prose; prose before the document; an empty response
Responses == {<<"json">>, <<"fence_json", "json", "fence">>,
              <<"fence", "json", "fence">>, <<"prose">>, <<"prose", "json">>, <<>>}
\* what a call of the classifier does when there is a model
ModelOutcomes ==
    {[kind |-> "fail"]}
        \cup {[kind |-> "text", response |-> r,
               result |-> [sentiment_score |-> Frac(9, 10),
                           sentiment_label |-> "positive",
                           confidence |-> Frac(3, 10), key_points |-> "classifier",
                           market_impact |-> "bullish"]] : r \in Responses}
\* what a call does when GEMINI_API_KEY is not set: self.model is None
NoModel == {[kind |-> "none"]}

\* the service runs either without a model or with one, for all its calls
NextClassifier ==
    \/ \E text \in Texts : ScrapeArticle(STOCK_SYMBOLS[1], text)
    \/ Analyzer(FALSE, NoModel)
    \/ Analyzer(FALSE, ModelOutcomes)

SpecClassifier == Init /\ [][NextClassifier]_vars

\* the text of the article a result of analyze_batch was built for
TextOf(result) == news_articles[result.article_id].text

\* a response text that is no JSON document, code fences apart
NotJson(response) ==
    \/ Len(SelectSeq(response, LAMBDA part : part = "json")) # 1
    \/ \E i \in 1..Len(response) : response[i] = "prose"

\* C14: for every call in which the classifier was missing, raised or
\* answered text that is not valid JSON, analyze_sentiment returned the
\* keyword-count record: score (pos - neg)/(pos + neg) within [-1, 1], or 0
\* when no polarity word was found; confidence 0.5; label positive for a
\* score above 0.2, negative below -0.2, neutral otherwise.
C14_FallbackRecord ==
    \A i \in 1..Len(anCalls) :
        LET cls == anCalls[i].cls
            got == anCalls[i].result
            pos == TextOf(got).pos
            neg == TextOf(got).neg
            score == got.sentiment_score
        IN  (cls.kind \in {"none", "fail"}
                 \/ (cls.kind = "text" /\ NotJson(cls.response))) =>
                /\ got.key_points = "Fallback analysis used"
                /\ score.num * (pos + neg) = (pos - neg) * score.den
                /\ pos + neg = 0 => score.num = 0
                /\ score.num <= score.den /\ 0 - score.den <= score.num
                /\ got.confidence.num * 2 = got.confidence.den
                /\ got.sentiment_label =
                       (IF 5 * score.num > score.den THEN "positive"
                        ELSE IF 5 * score.num < 0 - score.den THEN "negative"
                        ELSE "neutral")

\* C14 witness: one cycle in which a call with a raising classifier got the
\* neutral record for a text whose score is exactly 0.2, and a call with a
\* response that is prose got the negative record for a text of score -1
C14_Witness ==
    /\ Len(anCalls) = 2
    /\ \E i, k \in 1..2 :
           /\ anCalls[i].cls.kind = "fail"
           /\ TextOf(anCalls[i].result) = [pos |-> 3, neg |-> 2]
           /\ anCalls[i].result.sentiment_label = "neutral"
           /\ anCalls[k].cls.kind = "text"
           /\ anCalls[k].cls.response = <<"prose">>
           /\ TextOf(anCalls[k].result) = [pos |-> 0, neg |-> 8]
           /\ anCalls[k].result.sentiment_label = "negative"

(***************************************************************************)
(* Fault isolation of the scans: rows that make alerts of every kind, and  *)
(* a server that fails one statement of a cycle.                           *)
(***************************************************************************)
NextIsolation ==
    \/ \E s \in Symbols : ScrapeQuote(s, [change_percent |-> 700, volume |-> 300])
    \/ \E s \in Symbols : PublishSignal(s, 1000)
    \/ AnalyzeArticle(STOCK_SYMBOLS[1], Frac(0 - 9, 10))
    \/ Alerting(TRUE, CyclePatterns)

SpecIsolation == Init /\ [][NextIsolation]_vars

\* the symbols a scan's condition holds for, read off the store
Due(kind) ==
    CASE kind = "price" ->
             {s \in Symbols :
                 /\ market_data[s] # <<>>
                 /\ Abs(market_data[s][Len(market_data[s])].change_percent) > 500}
      [] kind = "sentiment" ->
             {s \in Symbols :
                 LET M == InWindow(s, 6)
                 IN  /\ Cardinality(M) >= 3
                     /\ SumOver(sentiment_analysis, M, "sentiment_score")
                            < (0 - 3000) * Cardinality(M)}
      [] kind = "signal" ->
             {s \in Symbols :
                 LET rows == trading_signals[s]
                 IN  /\ rows # <<>>
                     /\ rows[Len(rows)].signal \in {"STRONG_BUY", "STRONG_SELL"}
                     /\ rows[Len(rows)].timestamp > now - 1}

\* the symbols the batch holds an alert of the given type for
Batched(type) ==
    {all_alerts[i].symbol : i \in {k \in 1..Len(all_alerts) : all_alerts[k].type = type}}

ScanKinds == {"price", "sentiment", "signal"}
TypeOf(kind) ==
    CASE kind = "price" -> "PRICE_ALERT"
      [] kind = "sentiment" -> "SENTIMENT_ALERT"
      [] kind = "signal" -> "SIGNAL_ALERT"

\* C15: whichever scan of a cycle failed, by raising or by its query failing,
\* every scan of the cycle was run, and every scan whose query went through
\* has the alerts its condition asks for in the returned batch.
C15_ScansIsolated ==
    alPc = "checked" =>
        \A kind \in ScanKinds :
            /\ scanLog[kind].result \in {"rows", "none", "raise"}
            /\ scanLog[kind].result = "rows" => Batched(TypeOf(kind)) = Due(kind)
            /\ scanLog[kind].result # "rows" => Batched(TypeOf(kind)) = {}

\* C15 witness: the price scan raised (the connection broke during its query)
\* while quotes ask for a price alert, and the batch holds the sentiment
\* alert and the signal alert of the two scans after it
C15_Witness ==
    /\ alPc = "checked"
    /\ scanLog.price.result = "raise"
    /\ Due("price") # {}
    /\ scanLog.sentiment.result = "rows"
    /\ scanLog.signal.result = "rows"
    /\ Batched("SENTIMENT_ALERT") # {}
    /\ Batched("SIGNAL_ALERT") # {}

\* C16: in a cycle that reached send_notifications, whatever channel is absent
\* or fails: with an SMS channel configured an SMS is attempted for each of the
\* first 3 HIGH alerts, with or without an email channel and whether or not
\* the sends before it went through; a send through an absent SMS client
\* returns false; without an SMS channel nothing is attempted; an email is
\* attempted exactly when an email channel is configured; and the cycle
\* completes and returns the batch.
C16_ChannelsIsolated ==
    (alPc = "checked" /\ scanLog.notified) =>
        /\ alResp = [status |-> "success", alerts_found |-> Len(all_alerts)]
        /\ Len(emails) = (IF channels.email THEN 1 ELSE 0)
        /\ Len(smsLog) = (IF channels.sms THEN Min(3, Len(OfSeverity("HIGH"))) ELSE 0)
        /\ \A i \in 1..Len(smsLog) :
               /\ smsLog[i].message = OfSeverity("HIGH")[i].message
               /\ ~channels.twilio => ~smsLog[i].sent

\* C16 witness: no email channel, an SMS channel whose provider refused every
\* message, 4 HIGH alerts, and 3 SMS attempted, none of them sent
C16_Witness ==
    /\ alPc = "checked"
    /\ scanLog.notified
    /\ ~channels.email /\ channels.sms /\ channels.twilio
    /\ Len(OfSeverity("HIGH")) = 4
    /\ Len(smsLog) = 3
    /\ \A i \in 1..3 : ~smsLog[i].sent
    /\ alResp.status = "success"

\* C17: a cycle that found the store unreachable (the connection was not open
\* and no connect attempt succeeded, so that none of the three scans ran its
\* statement) answers with status "error", and leaves the stored rows alone.
C17_UnreachableStoreReported ==
    [][(alPc = "idle" /\ alPc' = "checked"
            /\ \A kind \in ScanKinds :
                   /\ scanLog'[kind].result = "raise"
                   /\ scanLog'[kind].sqlNow = NoTxn) =>
           (alResp'.status = "error" /\ alerts' = alerts)]_vars

\* the alert was handed to a channel, and the channel took it: a sent email
\* that lists it, or a sent SMS that carries its message
Handed(alert) ==
    \/ \E e \in 1..Len(emails) :
           /\ emails[e].sent
           /\ \E l \in 1..Len(Listed(emails[e].body)) :
                  Listed(emails[e].body)[l] = <<alert.message, alert.timestamp>>
    \/ \E k \in 1..Len(smsLog) :
           smsLog[k].sent /\ smsLog[k].message = alert.message

\* C18: with an email channel configured, every alert a cycle emitted has been
\* handed successfully to a channel when the cycle ends, whether or not a send
\* failed or the save of a later alert of the batch failed.  Nothing of the
\* batch outlives the cycle, so a delivery can only happen within it.
C18_EmittedAlertsDelivered ==
    (alPc = "checked" /\ channels.email) =>
        \A i \in 1..Len(all_alerts) : Handed(all_alerts[i])

(***************************************************************************)
(* Sentiment records over several analysis cycles.                         *)
(***************************************************************************)
\* articles about the first symbol over the hours, a classifier that fails,
\* and a server that may fail
NextRecords ==
    \/ Tick(AnalyzerHours)
    \/ ScrapeArticle(STOCK_SYMBOLS[1], [pos |-> 1, neg |-> 2])
    \/ Analyzer(TRUE, {[kind |-> "fail"]})

SpecRecords == Init /\ [][NextRecords]_vars

\* the records of the table that belong to the article
RecordsOf(table, id) == SelectSeq(table, LAMBDA r : r.article_id = id)

CycleBegin(r) ==
    /\ alPc = "idle"
    /\ requests[r].pc = "idle"
    /\ requests' = [requests EXCEPT ![r] = [pc |-> "price", all_alerts |-> <<>>]]
    /\ UNCHANGED <<clockVars, storeVars, anVars, alDb, alPc, all_alerts, scanLog,
                   emails, smsLog, alResp, channels, scVars, dbCall>>

\* one scan of check_all_conditions in thread r: its query on the shared
\* connection, and its alerts appended to the thread's batch
CycleScan(r, kind, then) ==
    /\ requests[r].pc = kind
    /\ \E q \in {execute_query(alDb, 1, "ok", TRUE, now)} :
           /\ alDb' = q.db
           /\ alerts' = Settle(alerts, q)
           /\ requests' = [requests EXCEPT ![r] =
                  [pc |-> then,
                   all_alerts |-> @.all_alerts \o
                       (IF kind = "price"
                        THEN check_price_alerts(Rows(PriceAlertQuery))
                        ELSE IF kind = "sentiment"
                        THEN check_sentiment_alerts(
                                 Rows(SentimentAlertQuery(q.sqlNow)), now)
                        ELSE check_trading_signals(
                                 Rows(SignalAlertQuery(q.sqlNow))))]]
    /\ UNCHANGED <<clockVars, market_data, news_articles, sentiment_analysis,
                   trading_signals, anVars, alPc, all_alerts, scanLog, emails,
                   smsLog, alResp, channels, scVars, dbCall>>

\* the rest of run_alert_check in thread r: the saves, the notifications and
\* the response
CycleEnd(r) ==
    /\ requests[r].pc = "save"
    /\ \E saved \in {SaveAlerts(alDb, alerts, requests[r].all_alerts, 1, 1, 0, now)},
          sent \in {send_notifications(requests[r].all_alerts, channels, TRUE)} :
           /\ alDb' = saved.db
           /\ alerts' = saved.table
           /\ emails' = sent.emails
           /\ smsLog' = sent.sms
           /\ alResp' = [status |-> "success",
                         alerts_found |-> Len(requests[r].all_alerts)]
    /\ requests' = [requests EXCEPT ![r] = NoRequest]
    /\ UNCHANGED <<clockVars, market_data, news_articles, sentiment_analysis,
                   trading_signals, anVars, alPc, all_alerts, scanLog, channels, scVars, dbCall>>

NextServer ==
    \/ \E s \in Symbols : ScrapeQuote(s, [change_percent |-> 700, volume |-> 300])
    \/ AlertStart(1, "ok")
    \/ \E r \in RequestThreads :
           \/ CycleBegin(r)
           \/ CycleScan(r, "price", "sentiment")
           \/ CycleScan(r, "sentiment", "signal")
           \/ CycleScan(r, "signal", "save")
           \/ CycleEnd(r)

SpecServer == InitNotify /\ [][NextServer]_vars

\* C20: at most one request of the alert service is inside a cycle at any
\* time, so that the queries of two cycles never interleave on the service's
\* connection.
C20_CyclesNeverOverlap ==
    Cardinality({r \in RequestThreads : requests[r].pc # "idle"}) <= 1

(***************************************************************************)
(* The scraper service.  __main__ runs one scrape and then app.run starts  *)
(* the server, which handles every POST /scrape in a thread of its own;    *)
(* nothing in run_full_scrape takes a lock.  Each thread carries its own   *)
(* time in seconds: the threads do not wait for one another.               *)
(* NEWS_API_KEY is not set, so scrape_news returns at once.                *)
(***************************************************************************)
\* what get_stock_quote comes to: a quote, an answer without 'Global Quote'
\* (None) or an exception inside it (None)
QuoteOutcomes == {"quote", "nodata", "fail"}
\* seconds a quote request takes: the provider answers within the second, or
\* requests.get gives up after REQUEST_TIMEOUT
Seconds(outcome) == IF outcome = "fail" THEN REQUEST_TIMEOUT ELSE 1
\* seconds between the latest begin or end of a scrape and the next request
Arrivals == {0, 5}

\* the time of the server's latest event: a scrape accepted or finished
ServerTime ==
    LET times == {IF scrapes[r].pc = "idle" THEN scrapes[r].t
                  ELSE scrapes[r].started : r \in RequestThreads}
    IN  CHOOSE m \in times : \A x \in times : x <= m

\* run_full_scrape begins: in __main__ (the first one, alone) or for a
\* POST /scrape that arrives wait seconds after the server's latest event and
\* is given to the first idle thread
ScrapeBegin(r, wait) ==
    /\ scrapeRuns < MaxScrapes
    /\ scrapes[r].pc = "idle"
    /\ \A o \in RequestThreads : o < r => scrapes[o].pc # "idle"
    /\ scrapeRuns = 0 => wait = 0
    /\ scrapeRuns = 1 => \A o \in RequestThreads : scrapes[o].pc = "idle"
    /\ scrapeRuns' = scrapeRuns + 1
    /\ scrapes' = [scrapes EXCEPT ![r] =
           [pc |-> "quotes", run |-> scrapeRuns + 1, i |-> 1,
            started |-> ServerTime + wait, t |-> ServerTime + wait,
            results |-> 0]]
    /\ UNCHANGED <<clockVars, storeVars, anVars, alVars, providerLog, dbCall>>

\* one iteration of the loop of scrape_market_data in thread r:
\* get_stock_quote, which takes seconds, the INSERT when a quote came, and
\* time.sleep(12)
ScrapeSymbol(r, outcome, seconds, quote) ==
    /\ scrapes[r].pc = "quotes"
    /\ scrapes[r].i <= Len(STOCK_SYMBOLS)
    /\ providerLog' = [providerLog EXCEPT ![scrapes[r].run] =
           Append(@, [symbol |-> STOCK_SYMBOLS[scrapes[r].i],
                      start |-> scrapes[r].t, end |-> scrapes[r].t + seconds,
                      outcome |-> outcome])]
    /\ market_data' =
           IF outcome = "quote"
           THEN [market_data EXCEPT ![STOCK_SYMBOLS[scrapes[r].i]] =
                    Append(@, [change_percent |-> quote.change_percent,
                               volume |-> quote.volume, timestamp |-> now])]
           ELSE market_data
    /\ scrapes' = [scrapes EXCEPT ![r] =
           [@ EXCEPT !.i = @ + 1,
                     !.t = @ + seconds + RATE_DELAY,
                     !.results = IF outcome = "quote" THEN @ + 1 ELSE @]]
    /\ UNCHANGED <<clockVars, news_articles, sentiment_analysis, trading_signals,
                   alerts, anVars, alVars, scrapeRuns, dbCall>>

\* the loop is over: scrape_market_data returns, scrape_news returns [] and
\* run_full_scrape returns
ScrapeEnd(r) ==
    /\ scrapes[r].pc = "quotes"
    /\ scrapes[r].i > Len(STOCK_SYMBOLS)
    /\ scrapes' = [scrapes EXCEPT ![r] = [@ EXCEPT !.pc = "idle"]]
    /\ UNCHANGED <<clockVars, storeVars, anVars, alVars, scrapeRuns, providerLog, dbCall>>

NextScraper ==
    \E r \in RequestThreads :
        \/ \E wait \in Arrivals : ScrapeBegin(r, wait)
        \/ \E outcome \in QuoteOutcomes :
               ScrapeSymbol(r, outcome, Seconds(outcome),
                            [change_percent |-> 700, volume |-> 300])
        \/ ScrapeEnd(r)

SpecScraper == Init /\ [][NextScraper]_vars

\* the requests of one scrape, in the order the provider received them
RequestsOf(run) == providerLog[run]

\* within every scrape the requests go symbol by symbol in list order, and
\* each starts RATE_DELAY seconds or more after the one before it returned,
\* whatever that one came to
SerialWithinScrape ==
    \A run \in 1..scrapeRuns :
        \A k \in 1..Len(RequestsOf(run)) :
            /\ RequestsOf(run)[k].symbol = STOCK_SYMBOLS[k]
            /\ k > 1 => RequestsOf(run)[k].start
                            >= RequestsOf(run)[k - 1].end + RATE_DELAY

\* C21: the quote requests of a scrape are serialized in symbol-list order
\* with the delay between every two of them, also after a request that failed
\* or returned no data, and no request of one scrape is in flight while a
\* request of another scrape is.
C21_ProviderRequestsSerialized ==
    /\ SerialWithinScrape
    /\ \A a, b \in 1..scrapeRuns :
           a # b =>
               \A j \in 1..Len(RequestsOf(a)), k \in 1..Len(RequestsOf(b)) :
                   \/ RequestsOf(a)[j].end <= RequestsOf(b)[k].start
                   \/ RequestsOf(b)[k].end <= RequestsOf(a)[j].start

\* C22: in every iteration of generate_signals the loop goes on to the next
\* symbol without an exception reaching the caller, and a symbol whose signal
\* could not be computed or was not persisted is not added to the returned
\* list, while a symbol whose signal was persisted is.
C22_FailureIsolated ==
    [][(anPc = "signals" /\ anQueue # <<>> /\ anQueue' = Tail(anQueue)) =>
           /\ anPc' = "signals"
           /\ anLast'.symbol = Head(anQueue)
           /\ anLast'.insert # "true" => signals' = signals
           /\ anLast'.insert = "true" => signals' = Append(signals, anLast'.signal)]_vars

(***************************************************************************)
(* DatabaseManager on its own: connect and execute_query called on the     *)
(* alert service's manager, with every behaviour of the server.            *)
(***************************************************************************)
\* connect(): the server accepts attempt firstOk first (none when 0)
ManagerConnect(firstOk) ==
    /\ alPc = "new"
    /\ \E c \in {connect(alDb, firstOk)} :
           /\ alDb' = c.db
           /\ dbCall' = [op |-> "connect", firstOk |-> firstOk, before |-> alDb,
                         ok |-> c.ok, attempts |-> c.attempts, sleeps |-> c.sleeps]
    /\ UNCHANGED <<clockVars, storeVars, anVars, alPc, all_alerts, scanLog, emails,
                   smsLog, alResp, channels, requests, scVars>>

\* execute_query(query, params, fetch): a reconnect goes as firstOk says and
\* the server treats the statement as stmt says
ManagerQuery(firstOk, stmt, fetch) ==
    /\ alPc = "new"
    /\ \E q \in {execute_query(alDb, firstOk, stmt, fetch, now)} :
           /\ alDb' = q.db
           /\ dbCall' = [op |-> "query", firstOk |-> firstOk, before |-> alDb,
                         at |-> now, stmt |-> stmt, fetch |-> fetch,
                         result |-> q.result,
                         sqlNow |-> q.sqlNow, reconnected |-> q.reconnected]
    /\ UNCHANGED <<clockVars, storeVars, anVars, alPc, all_alerts, scanLog, emails,
                   smsLog, alResp, channels, requests, scVars>>

NextManager ==
    \/ Tick(AlertHours)
    \/ \E firstOk \in 0..RETRIES : ManagerConnect(firstOk)
    \/ \E firstOk \in 0..RETRIES, stmt \in Outcomes, fetch \in BOOLEAN :
           ManagerQuery(firstOk, stmt, fetch)

SpecManager == Init /\ [][NextManager]_vars

\* C23: connect makes at most 5 attempts; when attempt k is the first the
\* server accepts it returns true after exactly k attempts and k - 1 waits and
\* the connection is open; when the server accepts none it returns false after
\* 5 attempts and 4 waits, none after the last attempt.  execute_query, called
\* with the connection absent or closed, reconnects before its statement: it
\* runs the statement on the new connection when an attempt succeeds and has
\* no connection to run it on when none does; with an open connection it does
\* not reconnect.
C23_ConnectAndReconnect ==
    /\ dbCall.op = "connect" =>
           /\ dbCall.attempts <= 5
           /\ dbCall.firstOk > 0 =>
                  /\ dbCall.ok
                  /\ dbCall.attempts = dbCall.firstOk
                  /\ dbCall.sleeps = dbCall.firstOk - 1
                  /\ alDb.conn = "open"
           /\ dbCall.firstOk = 0 =>
                  /\ ~dbCall.ok
                  /\ dbCall.attempts = 5
                  /\ dbCall.sleeps = 4
                  /\ alDb = dbCall.before
    /\ dbCall.op = "query" =>
           /\ (dbCall.before.conn # "open" /\ dbCall.firstOk > 0) =>
                  /\ dbCall.reconnected
                  /\ dbCall.sqlNow = dbCall.at
                  /\ dbCall.stmt = "ok" => dbCall.result \in {"rows", "true"}
           /\ (dbCall.before.conn # "open" /\ dbCall.firstOk = 0) =>
                  /\ dbCall.result = "raise"
                  /\ dbCall.sqlNow = NoTxn
                  /\ alDb = dbCall.before
           /\ dbCall.before.conn = "open" => ~dbCall.reconnected

\* C23 witness: all 5 attempts of a connect failed, after 4 waits
C23_Witness ==
    /\ dbCall.op = "connect"
    /\ dbCall.firstOk = 0
    /\ ~dbCall.ok
    /\ dbCall.attempts = 5
    /\ dbCall.sleeps = 4

(***************************************************************************)
(* Composite signals when the classifier's confidence may be negative:     *)
(* analyze_sentiment returns the parsed JSON as it is.                     *)
(***************************************************************************)
\* the classifier answers with a positive score and a confidence of -0.5
NegativeConfidence ==
    [kind |-> "text", response |-> <<"json">>,
     result |-> [sentiment_score |-> Frac(9, 10), sentiment_label |-> "positive",
                 confidence |-> Frac(0 - 1, 2), key_points |-> "classifier",
                 market_impact |-> "bullish"]]

NextComposite ==
    FusionEnvironment \/ Analyzer(FALSE, PolarOutcomes \cup {NegativeConfidence})

SpecComposite == Init /\ [][NextComposite]_vars

\* the sentiment signal points against the price signal
Opposes(sig) ==
    \/ sig.price_signal.signal = "BUY" /\ sig.sentiment_signal.signal = "BEARISH"
    \/ sig.price_signal.signal = "SELL" /\ sig.sentiment_signal.signal = "BULLISH"

\* C25: every composite signal whose price signal is BUY and whose sentiment
\* signal is not BEARISH is a STRONG_BUY, every one whose price signal is SELL
\* and whose sentiment signal is not BULLISH is a STRONG_SELL, and a final
\* signal of plain BUY or SELL occurs only with a price signal of HOLD or a
\* sentiment signal that opposes the price signal.
C25_PriceSignalDecides ==
    \A sig \in Composites :
        /\ (sig.price_signal.signal = "BUY"
            /\ sig.sentiment_signal.signal # "BEARISH")
               => sig.final_signal = "STRONG_BUY"
        /\ (sig.price_signal.signal = "SELL"
            /\ sig.sentiment_signal.signal # "BULLISH")
               => sig.final_signal = "STRONG_SELL"
        /\ sig.final_signal \in {"BUY", "SELL"}
               => (sig.price_signal.signal = "HOLD" \/ Opposes(sig))

\* the place of an alert type in the batch of a cycle
Rank(type) ==
    CASE type = "PRICE_ALERT" -> 1
      [] type = "SENTIMENT_ALERT" -> 2
      [] type = "SIGNAL_ALERT" -> 3

\* the alert at place i of the batch got an SMS
GotSms(i) == \E k \in 1..Len(smsLog) : smsLog[k].message = all_alerts[i].message

\* the number of PRICE_ALERTs before place i of the batch
PriceAlertsBefore(i) ==
    Cardinality({j \in 1..(i - 1) : all_alerts[j].type = "PRICE_ALERT"})

\* C26: in a cycle that notified with an SMS channel configured, the batch
\* holds the price alerts, then the sentiment alerts, then the signal alerts;
\* with 3 or more PRICE_ALERTs no SIGNAL_ALERT got an SMS; and a SIGNAL_ALERT
\* got an SMS exactly when fewer than 3 HIGH alerts precede it in the batch,
\* so only when fewer than 3 PRICE_ALERTs do.
C26_SmsFollowsBatchOrder ==
    (alPc = "checked" /\ scanLog.notified /\ channels.sms) =>
        /\ \A i, j \in 1..Len(all_alerts) :
               i < j => Rank(all_alerts[i].type) <= Rank(all_alerts[j].type)
        /\ PriceAlertsBefore(Len(all_alerts) + 1) >= 3 =>
               \A i \in 1..Len(all_alerts) :
                   all_alerts[i].type = "SIGNAL_ALERT" => ~GotSms(i)
        /\ \A i \in 1..Len(all_alerts) :
               all_alerts[i].type = "SIGNAL_ALERT" =>
                   /\ GotSms(i) => PriceAlertsBefore(i) < 3
                   /\ GotSms(i) <=>
                          Cardinality({j \in 1..(i - 1) :
                                          all_alerts[j].severity = "HIGH"}) < 3

\* C26 witness: 3 PRICE_ALERTs and a SIGNAL_ALERT in the batch, and the 3 SMS
\* went to the PRICE_ALERTs
C26_Witness ==
    /\ alPc = "checked"
    /\ scanLog.notified
    /\ channels.sms
    /\ PriceAlertsBefore(Len(all_alerts) + 1) = 3
    /\ \E i \in 1..Len(all_alerts) : all_alerts[i].type = "SIGNAL_ALERT"
    /\ Len(smsLog) = 3
    /\ \A i \in 1..3 : all_alerts[i].type = "PRICE_ALERT" /\ GotSms(i)

====
